---- MODULE Spec2Model ----
(***************************************************************************)
(* Word-frequency dataset pipelines: the cross-source combiners            *)
(* (build_unique, build_pool, merge_pools, build_common_words), the CSV    *)
(* writer of parse_show and the subtitle episode discovery.                *)
(*                                                                         *)
(* Strings are sequences of code points, compared as Python compares str.  *)
(* A file is a record [exists, by, header, rows]; "by" is the script that  *)
(* wrote it last.  A Python dict is a function whose DOMAIN is its key set.*)
(***************************************************************************)
EXTENDS Integers, Sequences, FiniteSets, TLC

VARIABLES
    tree,           \* which dataset tree the state describes
    config,         \* shows.yaml / config.yaml: configured name -> label
    csv,            \* {show}.csv / dataset.csv of each item
    wordsTxt,       \* {show}_words.txt / words.txt of each item
    excludeCsv,     \* {show}_exclude.csv / exclude.csv of each item
    pools,          \* the three common_pool.csv files merge_pools reads
    uniqueCsv,      \* {show}_unique.csv / unique.csv of each item
    commonWordsCsv, \* common_words.csv
    commonWordsTxt, \* common_words.txt
    thresholdTxt,   \* common_words_90.txt, _75.txt, _50.txt
    commonPoolCsv,  \* common_pool.csv
    mergedPoolCsv,  \* merged_pool.csv
    exitCode,       \* exit status of the last run of each script
    showDir,        \* season directory name -> set of file names in it
    episodes,       \* result of discover_episodes
    extract,        \* one call of books extract_words: its text and result
    aggregate,      \* one call of process_book / process_show
    lexicon,        \* the NGSL source lists and NGSL_combined.csv
    driver,         \* the lyrics pipeline driver: tasks, worker threads, files
    download,       \* one artist's lyrics download: the song loop and _dataset.json
    batch,          \* a run of a parser over every configured document
    reader,         \* one format reader of the lexicon merger applied to one file
    book,           \* extract_chapters: the walk over one EPUB's documents
    output          \* the lyrics output directory: which stage wrote which file

vars == <<tree, config, csv, wordsTxt, excludeCsv, pools, uniqueCsv,
          commonWordsCsv, commonWordsTxt, thresholdTxt, commonPoolCsv,
          mergedPoolCsv, exitCode, showDir, episodes, extract,
          aggregate,
          lexicon,
          driver,
          download,
          batch,
          reader,
          book,
          output>>

inputVars == <<tree, config, csv, wordsTxt, excludeCsv, pools>>

episodeVars == <<showDir, episodes>>

\* the state of the stages that work on no dataset tree
stageVars == <<extract, aggregate, lexicon, driver, download, batch, reader, book, output>>

----------------------------------------------------------------------------
(* Bounds *)

\* largest total_count of a word in a generated dataset
MaxCount == 2

\* largest number of distinct words in a generated dataset
MaxKeys == 2

\* largest number of files in a season directory
MaxFiles == 2

----------------------------------------------------------------------------
(* Strings *)

bird == <<98, 105, 114, 100>>
cat == <<99, 97, 116>>
dog == <<100, 111, 103>>
\* "Cat", a cell of a hand-written exclusion file
CatUpper == <<67, 97, 116>>
\* " dog ", a cell with surrounding blanks
dogPadded == <<32, 100, 111, 103, 32>>

Words == {bird, cat, dog}

\* item (show / book / artist) directory names "a", "b", "c"
ItemA == <<97>>
ItemB == <<98>>
ItemC == <<99>>
ItemNames == {ItemA, ItemB, ItemC}

\* labels "X", "Y", "Z"
LabelX == <<88>>
LabelY == <<89>>
LabelZ == <<90>>

\* Python's str <: lexicographic on code points, a proper prefix is smaller
StrLess(s, t) ==
    \E k \in 1..(Len(s) + 1) :
        /\ k <= Len(t)
        /\ \A j \in 1..(k - 1) : s[j] = t[j]
        /\ (k = Len(s) + 1 \/ s[k] < t[k])

\* str.lower() on the ASCII range
Lower(s) == [i \in 1..Len(s) |-> IF s[i] \in 65..90 THEN s[i] + 32 ELSE s[i]]

IsSpace(c) == c \in {9, 10, 13, 32}

\* str.strip()
Strip(s) ==
    LET keep == {i \in 1..Len(s) : ~IsSpace(s[i])}
    IN  IF keep = {} THEN <<>>
        ELSE LET lo == CHOOSE i \in keep : \A j \in keep : i <= j
                 hi == CHOOSE i \in keep : \A j \in keep : j <= i
             IN  [i \in 1..(hi - lo + 1) |-> s[lo + i - 1]]

----------------------------------------------------------------------------
(* Sequences, sorting, iteration orders *)

Range(s) == {s[i] : i \in 1..Len(s)}

\* every order in which a Python set (or an unordered listing) of S may be
\* enumerated
Orders(S) ==
    {s \in [1..Cardinality(S) -> S] :
        \A i, j \in 1..Cardinality(S) : i # j => s[i] # s[j]}

\* the key is the count alone
CountDescOnly(r1, r2) == r1[2] > r2[2]

\* key=lambda r: (-r[1], r[0]) on rows whose first field is the word and
\* whose second field is the count
CountDescWordAsc(r1, r2) ==
    \/ r1[2] > r2[2]
    \/ (r1[2] = r2[2] /\ StrLess(r1[1], r2[1]))

\* list.sort / sorted() as a stable insertion sort: an element goes before
\* the first element that is strictly greater
RECURSIVE InsertRow(_, _)
InsertRow(r, s) ==
    IF s = <<>> THEN <<r>>
    ELSE IF CountDescWordAsc(r, s[1]) THEN <<r>> \o s
    ELSE <<s[1]>> \o InsertRow(r, Tail(s))

\* rows.sort(key=lambda r: (-r[1], r[0]))
RECURSIVE SortRows(_)
SortRows(s) ==
    IF s = <<>> THEN <<>>
    ELSE InsertRow(s[Len(s)], SortRows(SubSeq(s, 1, Len(s) - 1)))

RECURSIVE InsertStr(_, _)
InsertStr(w, s) ==
    IF s = <<>> THEN <<w>>
    ELSE IF StrLess(w, s[1]) THEN <<w>> \o s
    ELSE <<s[1]>> \o InsertStr(w, Tail(s))

\* sorted() of a list of strings
RECURSIVE SortStrings(_)
SortStrings(s) ==
    IF s = <<>> THEN <<>>
    ELSE InsertStr(s[Len(s)], SortStrings(SubSeq(s, 1, Len(s) - 1)))

\* the words of a set in the order ord enumerates them
Enumerate(S, ord) == SelectSeq(ord, LAMBDA w : w \in S)

\* dict.items() in the order keyOrder
DictItems(d, keyOrder) ==
    [i \in 1..Len(keyOrder) |-> <<keyOrder[i], d[keyOrder[i]]>>]

\* one enumeration of a set, for lists whose order is sorted away at once
RECURSIVE AnyOrder(_)
AnyOrder(S) ==
    IF S = {} THEN <<>>
    ELSE LET x == CHOOSE y \in S : TRUE IN <<x>> \o AnyOrder(S \ {x})

\* the orders in which CPython may enumerate a set or dict of words
WordOrders == Orders(Words)

RECURSIVE SumSeq(_)
SumSeq(s) == IF s = <<>> THEN 0 ELSE s[1] + SumSeq(Tail(s))

----------------------------------------------------------------------------
(* Files *)

\* header holds the fixed column names, items the per-item column names
Missing ==
    [exists |-> FALSE, by |-> "", header |-> <<>>, items |-> <<>>,
     rows |-> <<>>]

File(script, hdr, itemCols, rws) ==
    [exists |-> TRUE, by |-> script, header |-> hdr, items |-> itemCols,
     rows |-> rws]

EmptyDict == [w \in {} |-> 0]

\* the results of process_show / process_book for an item with one unit:
\* word -> {"total": n, "episodes": {(1, 1): n}}, or no word at all
ProcessedWords ==
    UNION {[D -> 1..MaxCount] :
            D \in {K \in SUBSET Words : Cardinality(K) <= MaxKeys}}

\* at least one word, every word seen once
ProcessedOnce ==
    {m \in ProcessedWords : m # EmptyDict /\ \A w \in DOMAIN m : m[w] = 1}

\* the fixed synthetic input A = {cat: 3, dog: 1}, B = {cat: 2, bird: 5}
ExampleA == [w \in {cat, dog} |-> IF w = cat THEN 3 ELSE 1]
ExampleB == [w \in {cat, bird} |-> IF w = cat THEN 2 ELSE 5]

\* write_csv: rows (word, total, episode_count, episodes) sorted by
\* (-total, word); keyOrder is the iteration order of the words dict
write_csv(words, keyOrder) ==
    LET rows == [i \in 1..Len(keyOrder) |->
                    <<keyOrder[i], words[keyOrder[i]], 1,
                      <<<<1, 1, words[keyOrder[i]]>>>> >>]
    IN  File("parse", <<"word", "total_count", "episode_count", "episodes">>,
             <<>>, SortRows(rows))

\* write_wordlist: sorted(words.keys())
write_wordlist(words, keyOrder) ==
    File("parse", <<>>, <<>>, SortStrings(keyOrder))

----------------------------------------------------------------------------
(* Initial trees *)

Scripts ==
    {"build_unique_tv", "build_unique_books", "build_unique_lyrics",
     "build_pool_tv", "build_pool_books", "merge_pools",
     "build_common_words", "parse_show"}

NotRun == -1

\* the i-th configured item gets the i-th label unless the config says
\* otherwise
DefaultLabel(n) ==
    IF n = ItemA THEN LabelX ELSE IF n = ItemB THEN LabelY ELSE LabelZ

ThresholdFiles == {90, 75, 50}

NoOutputs ==
    /\ uniqueCsv = [n \in ItemNames |-> Missing]
    /\ commonWordsCsv = Missing
    /\ commonWordsTxt = Missing
    /\ thresholdTxt = [p \in ThresholdFiles |-> Missing]
    /\ commonPoolCsv = Missing
    /\ mergedPoolCsv = Missing
    /\ exitCode = [s \in Scripts |-> NotRun]

\* discover_episodes has not returned; no show directory is looked at
NotDiscovered == [returned |-> FALSE, paths |-> <<>>]

\* extract_words has not been called
NotExtracted ==
    [text |-> <<>>, called |-> FALSE, raised |-> FALSE, handed |-> <<>>,
     counts |-> <<>>]

\* process_book / process_show has not been called
NotAggregating ==
    [kind |-> "none", units |-> <<>>, consumed |-> 0, words |-> <<>>,
     returned |-> FALSE]

\* no lexicon list is looked at
NoLexicon == [lists |-> <<>>, merged |-> FALSE, rows |-> <<>>]

\* the lyrics pipeline driver is not running
NoDriver == [mode |-> "off"]

\* no download is running
NoDownload == [phase |-> "off"]

\* no parser is running over the documents
NoBatch == [tool |-> "none"]

\* no format reader has been given a file
NoReader == [format |-> "none"]

NoBook == [pc |-> "off"]

NoOutputDir == [mode |-> "off"]

\* no stage outside the dataset trees has run
NoStages ==
    /\ extract = NotExtracted
    /\ aggregate = NotAggregating
    /\ lexicon = NoLexicon
    /\ driver = NoDriver
    /\ download = NoDownload
    /\ batch = NoBatch
    /\ reader = NoReader
    /\ book = NoBook
    /\ output = NoOutputDir

NoEpisodes ==
    /\ showDir = <<>>
    /\ episodes = NotDiscovered
    /\ NoStages

\* the keys of POOLS: "books", "tv_shows", "lyrics"
PoolBooks == <<98, 111, 111, 107, 115>>
PoolTvShows == <<116, 118, 95, 115, 104, 111, 119, 115>>
PoolLyrics == <<108, 121, 114, 105, 99, 115>>
PoolNames == {PoolBooks, PoolTvShows, PoolLyrics}

\* the dataset and word list an item has after parse_show / parse_book ran
\* on it; an item with no extracted words has neither file
ParsedCsv(words) ==
    IF words = EmptyDict THEN Missing
    ELSE write_csv(words, AnyOrder(DOMAIN words))

ParsedWordsTxt(words) ==
    IF words = EmptyDict THEN Missing
    ELSE write_wordlist(words, AnyOrder(DOMAIN words))

\* lyrics build_vocabulary.process_artist: dataset.csv sorted by total_count
\* descending (columns word, total_count kept), words.txt the sorted lemmas
\* of the words that are no stopwords; here every word is its own lemma and
\* stop is the set of stopwords
VocabularyCsv(words) ==
    IF words = EmptyDict THEN Missing
    ELSE File("build_vocabulary", <<"word", "total_count">>, <<>>,
              SortRows(DictItems(words, AnyOrder(DOMAIN words))))

VocabularyWordsTxt(words, stop) ==
    IF words = EmptyDict THEN Missing
    ELSE File("build_vocabulary", <<>>, <<>>,
              SortStrings(AnyOrder(DOMAIN words \ stop)))

ItemCsv(tr, words) ==
    IF tr = "lyrics" THEN VocabularyCsv(words) ELSE ParsedCsv(words)

\* in the lyrics tree an artist whose only word is "dog" has it flagged as
\* a stopword, so that words.txt holds no word
ItemWordsTxt(tr, words) ==
    IF tr = "lyrics"
    THEN VocabularyWordsTxt(words, IF DOMAIN words = {dog} THEN {dog} ELSE {})
    ELSE ParsedWordsTxt(words)

ParsedTree(tr, names, parsed) ==
    /\ tree = tr
    /\ csv = [n \in ItemNames |->
                IF n \in names THEN ItemCsv(tr, parsed[n]) ELSE Missing]
    /\ wordsTxt = [n \in ItemNames |->
                IF n \in names THEN ItemWordsTxt(tr, parsed[n]) ELSE Missing]
    /\ pools = [p \in PoolNames |-> Missing]
    /\ NoOutputs
    /\ NoEpisodes

DefaultConfig(tr, names) ==
    IF tr = "lyrics" THEN <<>> ELSE [n \in names |-> DefaultLabel(n)]

\* a tree after parsing: one or two items with any processed words (an
\* item without words has no files), or three items whose words were each
\* seen once; distinct labels, no exclusion files
InitParsed ==
    \E tr \in {"TV_shows", "books", "lyrics"} :
        /\ \/ \E names \in {{ItemA}, {ItemA, ItemB}} :
                \E parsed \in [names -> ProcessedWords] :
                    /\ ParsedTree(tr, names, parsed)
                    /\ config = DefaultConfig(tr, names)
           \/ \E parsed \in [ItemNames -> ProcessedOnce] :
                    /\ ParsedTree(tr, ItemNames, parsed)
                    /\ config = DefaultConfig(tr, ItemNames)
        /\ excludeCsv = [n \in ItemNames |-> Missing]

\* a TV_shows / books tree with three configured items of which the third
\* has no dataset and no word list
InitUnparsed ==
    \E tr \in {"TV_shows", "books"} :
        /\ \E parsed \in [{ItemA, ItemB} -> ProcessedOnce] :
                ParsedTree(tr, ItemNames,
                           [n \in ItemNames |->
                               IF n = ItemC THEN EmptyDict ELSE parsed[n]])
        /\ config = DefaultConfig(tr, ItemNames)
        /\ excludeCsv = [n \in ItemNames |-> Missing]

\* the fixed synthetic input
InitExample ==
    \E tr \in {"TV_shows", "books", "lyrics"} :
        /\ ParsedTree(tr, {ItemA, ItemB},
                      [n \in {ItemA, ItemB} |->
                          IF n = ItemA THEN ExampleA ELSE ExampleB])
        /\ config = DefaultConfig(tr, {ItemA, ItemB})
        /\ excludeCsv = [n \in ItemNames |-> Missing]

\* hand-written exclusion files: none, "Cat", or " dog " and "bird"
ExcludeFiles ==
    {Missing,
     File("manual", <<"word">>, <<>>, << <<CatUpper>> >>),
     File("manual", <<"word">>, <<>>, << <<dogPadded>>, <<bird>> >>)}

\* a TV_shows / books tree with two items, curated exclusion files and
\* labels that may coincide
InitCurated ==
    \E tr \in {"TV_shows", "books"} :
        /\ \E parsed \in [{ItemA, ItemB} -> ProcessedOnce] :
                ParsedTree(tr, {ItemA, ItemB}, parsed)
        /\ \E lb \in {LabelX, LabelY} :
                config = [n \in {ItemA, ItemB} |->
                            IF n = ItemA THEN LabelX ELSE lb]
        /\ \E ex \in [{ItemA, ItemB} -> ExcludeFiles] :
                excludeCsv = [n \in ItemNames |->
                                IF n = ItemC THEN Missing ELSE ex[n]]

----------------------------------------------------------------------------
(* build_unique *)

\* the dataset without the words of the item's exclusion file
load_show_words_clean(name) ==
    LET rows == csv[name].rows
        excluded == IF excludeCsv[name].exists
                    THEN {Lower(Strip(excludeCsv[name].rows[i][1])) :
                            i \in 1..Len(excludeCsv[name].rows)}
                    ELSE {}
    IN  [w \in {rows[i][1] : i \in 1..Len(rows)} \ excluded |->
            rows[CHOOSE i \in 1..Len(rows) : rows[i][1] = w][2]]

\* load_show_words / load_book_words / load_artist_words: a later row of
\* the same word overwrites an earlier one
load_show_words(name) ==
    LET rows == csv[name].rows
        last(w) == CHOOSE i \in 1..Len(rows) :
                       /\ rows[i][1] = w
                       /\ \A j \in (i + 1)..Len(rows) : rows[j][1] # w
    IN  [w \in {rows[i][1] : i \in 1..Len(rows)} |-> rows[last(w)][2]]

\* other_words of main: the keys of every other item's map
other_words(show_words, name) ==
    UNION {DOMAIN show_words[other] : other \in DOMAIN show_words \ {name}}

\* a word is kept when some other item lacks it
unique_of_some(show_words, name) ==
    [w \in {v \in DOMAIN show_words[name] :
                \E other \in DOMAIN show_words \ {name} :
                    v \notin DOMAIN show_words[other]} |->
        show_words[name][w]]

\* unique = {w: c for w, c in show_words[name].items() if w not in other_words}
unique_of(show_words, name) ==
    [w \in DOMAIN show_words[name] \ other_words(show_words, name) |->
        show_words[name][w]]

write_unique(script, unique, ord) ==
    File(script, <<"word", "total_count">>, <<>>,
         SortRows(DictItems(unique, Enumerate(DOMAIN unique, ord))))

\* set.intersection(*(set(w.keys()) for w in show_words.values()))
common_of(show_words) ==
    {w \in UNION {DOMAIN show_words[s] : s \in DOMAIN show_words} :
        \A s \in DOMAIN show_words : w \in DOMAIN show_words[s]}

\* the total is the largest per-item count
common_total_max(counts) ==
    CHOOSE c \in Range(counts) : \A d \in Range(counts) : d <= c

\* total = sum(counts.values())
common_total(counts) == SumSeq(counts)

\* rows of write_common: (word, total, per-item counts in sorted name order)
common_rows(show_words, ord) ==
    LET show_names == SortStrings(AnyOrder(DOMAIN show_words))
        common == Enumerate(common_of(show_words), ord)
        counts(w) == [k \in 1..Len(show_names) |-> show_words[show_names[k]][w]]
        rows == [i \in 1..Len(common) |->
                    <<common[i], common_total(counts(common[i])),
                      counts(common[i])>>]
    IN  SortRows(rows)

write_common_csv(script, show_words, ord) ==
    File(script, <<"word", "total">>,
         SortStrings(AnyOrder(DOMAIN show_words)),
         common_rows(show_words, ord))

write_common_txt(script, show_words, ord) ==
    LET rows == common_rows(show_words, ord)
    IN  File(script, <<>>, <<>>, [i \in 1..Len(rows) |-> rows[i][1]])

Exit(script, code) == exitCode' = [exitCode EXCEPT ![script] = code]

\* main of build_unique.py for the configured (or discovered) item names
build_unique_main(script, names) ==
    IF Cardinality(names) < 2 \/ \E n \in names : ~csv[n].exists
    THEN /\ Exit(script, 1)
         /\ UNCHANGED <<uniqueCsv, commonWordsCsv, commonWordsTxt>>
    ELSE \E ord \in WordOrders :
            LET show_words == [n \in names |-> load_show_words(n)]
            IN  /\ uniqueCsv' = [n \in ItemNames |->
                        IF n \in names
                        THEN write_unique(script, unique_of(show_words, n), ord)
                        ELSE uniqueCsv[n]]
                /\ commonWordsCsv' = write_common_csv(script, show_words, ord)
                /\ commonWordsTxt' = write_common_txt(script, show_words, ord)
                /\ Exit(script, 0)

\* lyrics config.load_artists: the directories that have a dataset.csv
load_artists == {n \in ItemNames : csv[n].exists}

BuildUniqueTV ==
    /\ tree = "TV_shows"
    /\ build_unique_main("build_unique_tv", DOMAIN config)
    /\ UNCHANGED <<inputVars, thresholdTxt, commonPoolCsv, mergedPoolCsv,
                   episodeVars, stageVars>>

BuildUniqueBooks ==
    /\ tree = "books"
    /\ build_unique_main("build_unique_books", DOMAIN config)
    /\ UNCHANGED <<inputVars, thresholdTxt, commonPoolCsv, mergedPoolCsv,
                   episodeVars, stageVars>>

BuildUniqueLyrics ==
    /\ tree = "lyrics"
    /\ build_unique_main("build_unique_lyrics", load_artists)
    /\ UNCHANGED <<inputVars, thresholdTxt, commonPoolCsv, mergedPoolCsv,
                   episodeVars, stageVars>>

----------------------------------------------------------------------------
(* build_pool *)

\* read_words_txt: the stripped, lower-cased non-empty lines
read_words_txt(file) ==
    {Lower(Strip(file.rows[i])) : i \in 1..Len(file.rows)} \ {<<>>}

\* read_csv_words / read_pool: the stripped, lower-cased non-empty cells of
\* the "word" column
read_csv_words(file) ==
    {Lower(Strip(file.rows[i][1])) : i \in 1..Len(file.rows)} \ {<<>>}

\* the exclusion file is not subtracted
clean_words_all(name) == read_words_txt(wordsTxt[name])

\* clean = all_words - exclude
clean_words(name) ==
    read_words_txt(wordsTxt[name]) \
        (IF excludeCsv[name].exists THEN read_csv_words(excludeCsv[name])
         ELSE {})

\* word_shows after the loop over the items in itemOrder: each word of an
\* item's clean set got the item's label appended; items without a word
\* list are skipped
word_shows_of(shows, itemOrder) ==
    LET present == SelectSeq(itemOrder, LAMBDA n : wordsTxt[n].exists)
        clean == [n \in Range(present) |-> clean_words(n)]
        holders(w) == SelectSeq(present, LAMBDA n : w \in clean[n])
    IN  [w \in UNION {clean[n] : n \in Range(present)} |->
            [i \in 1..Len(holders(w)) |-> shows[holders(w)[i]]]]

\* the count is the number of distinct labels
show_count_distinct(word_show_list) == Cardinality(Range(word_show_list))

\* len(word_show_list), the third cell of a pool row
show_count(word_show_list) == Len(word_show_list)

\* the member list is written in the order the labels were appended
joined_as_appended(word_show_list) == word_show_list

\* "|".join(sorted(word_show_list)), the second cell of a pool row
joined_sorted(word_show_list) == SortStrings(word_show_list)

\* sorted(word_shows.items(), key=lambda x: (-len(x[1]), x[0])) and the
\* rows written from it: (word, members, count)
pool_rows(word_members, ord) ==
    LET keys == Enumerate(DOMAIN word_members, ord)
        keyed == [i \in 1..Len(keys) |->
                    <<keys[i], Len(word_members[keys[i]]),
                      word_members[keys[i]]>>]
        rows == SortRows(keyed)
    IN  [i \in 1..Len(rows) |->
            <<rows[i][1], joined_sorted(rows[i][3]), show_count(rows[i][3])>>]

\* main of build_pool.py
build_pool_main(script, shows) ==
    \E itemOrder \in Orders(DOMAIN shows) :
        \E ord \in WordOrders :
            /\ commonPoolCsv' =
                    File(script, <<"word", "shows", "show_count">>, <<>>,
                         pool_rows(word_shows_of(shows, itemOrder), ord))
            /\ Exit(script, 0)

BuildPoolTV ==
    /\ tree = "TV_shows"
    /\ build_pool_main("build_pool_tv", config)
    /\ UNCHANGED <<inputVars, uniqueCsv, commonWordsCsv, commonWordsTxt,
                   thresholdTxt, mergedPoolCsv, episodeVars, stageVars>>

BuildPoolBooks ==
    /\ tree = "books"
    /\ build_pool_main("build_pool_books", config)
    /\ UNCHANGED <<inputVars, uniqueCsv, commonWordsCsv, commonWordsTxt,
                   thresholdTxt, mergedPoolCsv, episodeVars, stageVars>>

----------------------------------------------------------------------------
(* merge_pools *)

\* the common_pool.csv a category holds for the word set S
PoolFile(S) ==
    File("build_pool", <<"word", "shows", "show_count">>, <<>>,
         pool_rows([w \in S |-> <<LabelX>>], AnyOrder(S)))

\* the merged tree: each category pool is absent or lists some words
InitMerged ==
    /\ tree = "merged"
    /\ config = <<>>
    /\ csv = [n \in ItemNames |-> Missing]
    /\ wordsTxt = [n \in ItemNames |-> Missing]
    /\ excludeCsv = [n \in ItemNames |-> Missing]
    /\ pools \in [PoolNames ->
                    {Missing} \cup
                    {PoolFile(S) : S \in {K \in SUBSET Words :
                                K # {} /\ Cardinality(K) <= MaxKeys - 1}}]
    /\ NoOutputs
    /\ NoEpisodes

\* the keys of the POOLS literal in insertion order
POOLS == <<PoolBooks, PoolTvShows, PoolLyrics>>

\* word_datasets after the loop over sorted(POOLS.items())
word_datasets_of(poolOrder) ==
    LET present == SelectSeq(poolOrder, LAMBDA n : pools[n].exists)
        words == [n \in Range(present) |-> read_csv_words(pools[n])]
        holders(w) == SelectSeq(present, LAMBDA n : w \in words[n])
    IN  [w \in UNION {words[n] : n \in Range(present)} |-> holders(w)]

\* main of merge_pools.py
MergePools ==
    /\ tree = "merged"
    /\ \E ord \in WordOrders :
            mergedPoolCsv' =
                File("merge_pools", <<"word", "datasets", "dataset_count">>,
                     <<>>,
                     pool_rows(word_datasets_of(SortStrings(POOLS)), ord))
    /\ Exit("merge_pools", 0)
    /\ UNCHANGED <<inputVars, uniqueCsv, commonWordsCsv, commonWordsTxt,
                   thresholdTxt, commonPoolCsv, episodeVars, stageVars>>

----------------------------------------------------------------------------
(* lyrics build_common_words *)

\* load_words: the stripped non-empty lines
load_words(file) ==
    {Strip(file.rows[i]) : i \in 1..Len(file.rows)} \ {<<>>}

\* artist_words: the artists that have a words.txt with at least one word
artists_with_words ==
    {n \in ItemNames : wordsTxt[n].exists /\ load_words(wordsTxt[n]) # {}}

\* the artists of artist_words in the order of sorted(OUTPUT_DIR.glob(...))
sorted_artists == SortStrings(AnyOrder(artists_with_words))

\* word_artists after the loop over the artists in artistOrder
word_artists_of(artistOrder) ==
    LET words == [n \in Range(artistOrder) |-> load_words(wordsTxt[n])]
        holders(w) == SelectSeq(artistOrder, LAMBDA n : w \in words[n])
    IN  [w \in UNION {words[n] : n \in Range(artistOrder)} |-> holders(w)]

\* all_words = sorted(word_artists.items(), key=lambda x: (-len(x[1]), x[0]))
\* as rows (word, artist_count, artists)
all_words_of(word_artists, ord) ==
    LET keys == Enumerate(DOMAIN word_artists, ord)
    IN  SortRows([i \in 1..Len(keys) |->
                    <<keys[i], Len(word_artists[keys[i]]),
                      word_artists[keys[i]]>>])

\* round(n / total * 100, 1) in tenths of a percent, ties to even
artist_pct(n, total) ==
    LET q == (n * 1000) \div total
        r == (n * 1000) % total
    IN  IF 2 * r > total \/ (2 * r = total /\ q % 2 = 1) THEN q + 1 ELSE q

min_artists_but_one(total, threshold_pct) ==
    LET n == (total * threshold_pct) \div 100 - 1
    IN  IF n < 1 THEN 1 ELSE n

\* min_artists = max(1, int(total * threshold_pct / 100))
min_artists(total, threshold_pct) ==
    LET n == (total * threshold_pct) \div 100
    IN  IF n < 1 THEN 1 ELSE n

\* the kept words stay in the order of all_words
threshold_words_unsorted(all_words, total, threshold_pct) ==
    LET kept == SelectSeq(all_words,
                    LAMBDA r : r[2] >= min_artists(total, threshold_pct))
    IN  [i \in 1..Len(kept) |-> kept[i][1]]

\* common = sorted(w for w, a in all_words if len(a) >= min_artists)
threshold_words(all_words, total, threshold_pct) ==
    LET kept == SelectSeq(all_words,
                    LAMBDA r : r[2] >= min_artists(total, threshold_pct))
    IN  SortStrings([i \in 1..Len(kept) |-> kept[i][1]])

\* main of build_common_words.py
BuildCommonWords ==
    /\ tree = "lyrics"
    /\ IF artists_with_words = {}
       THEN UNCHANGED <<commonWordsCsv, commonWordsTxt, thresholdTxt>>
       ELSE \E ord \in WordOrders :
                LET total == Cardinality(artists_with_words)
                    all_words ==
                        all_words_of(word_artists_of(sorted_artists), ord)
                IN  /\ commonWordsCsv' =
                            File("build_common_words",
                                 <<"word", "artist_count", "artist_pct",
                                   "artists">>, <<>>,
                                 [i \in 1..Len(all_words) |->
                                    <<all_words[i][1], all_words[i][2],
                                      artist_pct(all_words[i][2], total),
                                      SortStrings(all_words[i][3])>>])
                    /\ commonWordsTxt' =
                            File("build_common_words", <<>>, <<>>,
                                 threshold_words(all_words, total, 100))
                    /\ thresholdTxt' = [p \in ThresholdFiles |->
                            File("build_common_words", <<>>, <<>>,
                                 threshold_words(all_words, total, p))]
    /\ Exit("build_common_words", 0)
    /\ UNCHANGED <<inputVars, uniqueCsv, commonPoolCsv, mergedPoolCsv,
                   episodeVars, stageVars>>

----------------------------------------------------------------------------
(* parse_show *)

\* the tv_shows tree before any show was parsed
InitSources ==
    /\ tree = "tv_shows"
    /\ config = [n \in {ItemA, ItemB} |-> DefaultLabel(n)]
    /\ csv = [n \in ItemNames |-> Missing]
    /\ wordsTxt = [n \in ItemNames |-> Missing]
    /\ excludeCsv = [n \in ItemNames |-> Missing]
    /\ pools = [p \in PoolNames |-> Missing]
    /\ NoOutputs
    /\ NoEpisodes

\* main of parse_show.py --show name, for a show not parsed before;
\* process_show returns words, enumerated in the order ord
RunShow(name) ==
    /\ tree = "tv_shows"
    /\ ~csv[name].exists
    /\ IF name \notin DOMAIN config
       THEN /\ Exit("parse_show", 1)
            /\ UNCHANGED <<csv, wordsTxt>>
       ELSE /\ \E words \in ProcessedWords :
              \E ord \in WordOrders :
                IF words = EmptyDict
                THEN UNCHANGED <<csv, wordsTxt>>
                ELSE /\ csv' = [csv EXCEPT ![name] =
                            write_csv(words, Enumerate(DOMAIN words, ord))]
                     /\ wordsTxt' = [wordsTxt EXCEPT ![name] =
                            write_wordlist(words, Enumerate(DOMAIN words, ord))]
            /\ Exit("parse_show", 0)
    /\ UNCHANGED <<tree, config, excludeCsv, pools, uniqueCsv, commonWordsCsv,
                   commonWordsTxt, thresholdTxt, commonPoolCsv, mergedPoolCsv,
                   episodeVars, stageVars>>

----------------------------------------------------------------------------
(* The combiners, each run once on a tree on which no combiner ran *)

Combiners == Scripts \ {"parse_show"}

FreshTree == \A s \in Combiners : exitCode[s] = NotRun

Init ==
    \/ InitParsed
    \/ InitUnparsed
    \/ InitExample
    \/ InitCurated
    \/ InitMerged
    \/ InitSources

Next ==
    \/ FreshTree /\ BuildUniqueTV
    \/ FreshTree /\ BuildUniqueBooks
    \/ FreshTree /\ BuildUniqueLyrics
    \/ FreshTree /\ BuildPoolTV
    \/ FreshTree /\ BuildPoolBooks
    \/ FreshTree /\ MergePools
    \/ FreshTree /\ BuildCommonWords
    \/ \E name \in ItemNames : RunShow(name)

Spec == Init /\ [][Next]_vars

----------------------------------------------------------------------------
(* Reruns: every script may run again and again on a small tree *)

SingleWord == {m \in ProcessedOnce : Cardinality(DOMAIN m) = 1}

InitRerun ==
    \/ InitExample
    \/ InitMerged
    \/ InitSources
    \/ \E tr \in {"TV_shows", "books", "lyrics"} :
        /\ excludeCsv = [n \in ItemNames |-> Missing]
        /\ \/ \E parsed \in [{ItemA, ItemB} -> ProcessedOnce] :
                /\ ParsedTree(tr, {ItemA, ItemB}, parsed)
                /\ config = DefaultConfig(tr, {ItemA, ItemB})
           \/ \E parsed \in [ItemNames -> SingleWord] :
                /\ ParsedTree(tr, ItemNames, parsed)
                /\ config = DefaultConfig(tr, ItemNames)

NextRerun ==
    \/ BuildUniqueTV
    \/ BuildUniqueBooks
    \/ BuildUniqueLyrics
    \/ BuildPoolTV
    \/ BuildPoolBooks
    \/ MergePools
    \/ BuildCommonWords
    \/ \E name \in ItemNames : RunShow(name)

SpecRerun == InitRerun /\ [][NextRerun]_vars

----------------------------------------------------------------------------
(* srt_parser: episode discovery *)

\* season directory names "S1", "S2"
Season1 == <<83, 49>>
Season2 == <<83, 50>>
EntryNames == {Season1, Season2}

\* "a1x01.srt", "b1x1.srt", "Z01x01.srt": three sources of episode 1x01
FileA == <<97, 49, 120, 48, 49, 46, 115, 114, 116>>
FileB == <<98, 49, 120, 49, 46, 115, 114, 116>>
FileZ == <<90, 48, 49, 120, 48, 49, 46, 115, 114, 116>>
\* "c1x02.srt": episode 1x02
FileC == <<99, 49, 120, 48, 50, 46, 115, 114, 116>>
\* "notes.srt": no episode pattern
FileNotes == <<110, 111, 116, 101, 115, 46, 115, 114, 116>>
\* "a1x01.txt": not a subtitle file
FileTxt == <<97, 49, 120, 48, 49, 46, 116, 120, 116>>
FileNames == {FileA, FileB, FileZ, FileC, FileNotes, FileTxt}

IsDigit(c) == c \in 48..57

\* the last index of the run of digits that starts at i
RECURSIVE DigitRunEnd(_, _)
DigitRunEnd(s, i) ==
    IF i + 1 <= Len(s) /\ IsDigit(s[i + 1]) THEN DigitRunEnd(s, i + 1) ELSE i

\* int() of the digits s[i..j]
RECURSIVE IntOf(_, _, _)
IntOf(s, i, j) ==
    IF j < i THEN 0 ELSE 10 * IntOf(s, i, j - 1) + (s[j] - 48)

\* RE_EPISODE.search(filename): the leftmost position where a greedy run of
\* digits is followed by "x" and a digit; None is the empty tuple
parse_episode_from_filename(filename) ==
    LET starts == {i \in 1..Len(filename) :
                    /\ IsDigit(filename[i])
                    /\ LET j == DigitRunEnd(filename, i)
                       IN  /\ j + 2 <= Len(filename)
                           /\ filename[j + 1] = 120
                           /\ IsDigit(filename[j + 2])}
    IN  IF starts = {} THEN <<>>
        ELSE LET i == CHOOSE k \in starts : \A l \in starts : k <= l
                 j == DigitRunEnd(filename, i)
             IN  <<IntOf(filename, i, j),
                   IntOf(filename, j + 2, DigitRunEnd(filename, j + 2))>>

\* fnmatch of "*.srt"
MatchesSrt(name) ==
    /\ Len(name) >= 4
    /\ SubSeq(name, Len(name) - 3, Len(name)) = <<46, 115, 114, 116>>

\* the listing is used in the order the file system returned it
listing_as_returned(listing) == listing

\* sorted(show_dir.iterdir()) / sorted(season_dir.glob("*.srt")): paths of
\* one directory compare by their last component
sorted_listing(listing) == SortStrings(listing)

\* the loop body over the files of one season directory: the first file
\* seen for an identity stays
RECURSIVE scan_files(_, _, _)
scan_files(found, dir, files) ==
    IF files = <<>> THEN found
    ELSE LET ep == parse_episode_from_filename(files[1])
             next == IF ep = <<>> \/ ep \in DOMAIN found THEN found
                     ELSE [e \in DOMAIN found \cup {ep} |->
                            IF e = ep THEN <<dir, files[1]>> ELSE found[e]]
         IN  scan_files(next, dir, Tail(files))

\* the loop over the entries of the show directory; globs[d] is the order
\* in which glob returned the files of d
RECURSIVE scan_dirs(_, _, _)
scan_dirs(found, entries, globs) ==
    IF entries = <<>> THEN found
    ELSE LET d == entries[1]
             next == IF ~showDir[d].is_dir THEN found
                     ELSE scan_files(found, d, sorted_listing(globs[d]))
         IN  scan_dirs(next, Tail(entries), globs)

\* what a show directory entry may be: a plain file or a directory with
\* at most MaxFiles files
Entries ==
    {[is_dir |-> FALSE, files |-> {}]} \cup
    {[is_dir |-> TRUE, files |-> F] :
        F \in {K \in SUBSET FileNames : Cardinality(K) <= MaxFiles}}

\* a show directory with any of the two entries, nothing discovered yet
InitEpisodes ==
    /\ tree = "tv_shows"
    /\ config = [n \in {ItemA} |-> DefaultLabel(n)]
    /\ csv = [n \in ItemNames |-> Missing]
    /\ wordsTxt = [n \in ItemNames |-> Missing]
    /\ excludeCsv = [n \in ItemNames |-> Missing]
    /\ pools = [p \in PoolNames |-> Missing]
    /\ NoOutputs
    /\ \E present \in SUBSET EntryNames : showDir \in [present -> Entries]
    /\ episodes = NotDiscovered
    /\ NoStages

\* what season_dir.glob("*.srt") yields for the entry d
SrtFiles(d) ==
    IF d \in DOMAIN showDir
    THEN {f \in showDir[d].files : MatchesSrt(f)}
    ELSE {}

\* discover_episodes(show_dir); iterdir and glob return their entries in
\* any order
DiscoverEpisodes ==
    /\ \E listing \in Orders(DOMAIN showDir) :
        \E glob1 \in Orders(SrtFiles(Season1)) :
            \E glob2 \in Orders(SrtFiles(Season2)) :
                LET globs == [d \in EntryNames |->
                                IF d = Season1 THEN glob1 ELSE glob2]
                IN  episodes' =
                        [returned |-> TRUE,
                         paths |-> scan_dirs(<<>>, sorted_listing(listing),
                                             globs)]
    /\ UNCHANGED <<inputVars, uniqueCsv, commonWordsCsv, commonWordsTxt,
                   thresholdTxt, commonPoolCsv, mergedPoolCsv, exitCode,
                   showDir, stageVars>>

NextEpisodes == DiscoverEpisodes

SpecEpisodes == InitEpisodes /\ [][NextEpisodes]_vars

----------------------------------------------------------------------------
(* books word_processor: extract_words *)

\* CHUNK_SIZE = 500_000, scaled down
CHUNK_SIZE == 3

\* the headroom of _nlp.max_length = CHUNK_SIZE + 100_000, scaled down
Headroom == 1

\* longest text handed to extract_words
MaxTextLen == 6

Newline == 10

\* the characters of a text: "c", "d" and the paragraph separator
TextChars == {99, 100, Newline}

Texts == UNION {[1..n -> TextChars] : n \in 0..MaxTextLen}

\* text.split("\n"): one more paragraph than there are separators
RECURSIVE SplitLines(_)
SplitLines(text) ==
    IF \A i \in 1..Len(text) : text[i] # Newline THEN <<text>>
    ELSE LET k == CHOOSE i \in 1..Len(text) :
                    /\ text[i] = Newline
                    /\ \A j \in 1..(i - 1) : text[j] # Newline
         IN  <<SubSeq(text, 1, k - 1)>>
                \o SplitLines(SubSeq(text, k + 1, Len(text)))

\* "\n".join(chunk)
RECURSIVE JoinLines(_)
JoinLines(chunk) ==
    IF chunk = <<>> THEN <<>>
    ELSE IF Len(chunk) = 1 THEN chunk[1]
    ELSE chunk[1] \o <<Newline>> \o JoinLines(Tail(chunk))

\* _process_doc for a tokenizer that makes every character a token, keeps
\* the letters and rejects the separator as space: the Counter of the kept
\* tokens
_process_doc(doc) ==
    [w \in Range(doc) \ {Newline} |->
        Cardinality({i \in 1..Len(doc) : doc[i] = w})]

\* counts += other on Counters with positive counts
CounterAdd(a, b) ==
    [w \in DOMAIN a \cup DOMAIN b |->
        (IF w \in DOMAIN a THEN a[w] ELSE 0)
            + (IF w \in DOMAIN b THEN b[w] ELSE 0)]

\* nlp(text) raises ValueError when the text is longer than max_length
nlp_raises(text) == Len(text) > CHUNK_SIZE + Headroom

\* chunk_len + len(para) + 1 > CHUNK_SIZE and chunk
closes_chunk(chunk, chunk_len, para) ==
    chunk_len + Len(para) + 1 > CHUNK_SIZE /\ chunk # <<>>

\* the paragraphs left after the loop are not processed
last_chunk_dropped(chunk) == <<>>

\* if chunk: the paragraphs left after the loop make the last chunk
last_chunk(chunk) == IF chunk # <<>> THEN <<chunk>> ELSE <<>>

\* the loop over the paragraphs and the final flush: the chunks (lists of
\* paragraphs) in the order they are closed
RECURSIVE chunks_from(_, _, _)
chunks_from(paragraphs, chunk, chunk_len) ==
    IF paragraphs = <<>>
    THEN last_chunk(chunk)
    ELSE LET para == paragraphs[1]
         IN  IF closes_chunk(chunk, chunk_len, para)
             THEN <<chunk>>
                    \o chunks_from(Tail(paragraphs), <<para>>, Len(para) + 1)
             ELSE chunks_from(Tail(paragraphs), Append(chunk, para),
                              chunk_len + Len(para) + 1)

\* the texts extract_words hands to nlp, in order
docs_of(text) ==
    IF Len(text) <= CHUNK_SIZE THEN <<text>>
    ELSE LET chunks == chunks_from(SplitLines(text), <<>>, 0)
         IN  [i \in 1..Len(chunks) |-> JoinLines(chunks[i])]

RECURSIVE SumCounters(_)
SumCounters(counters) ==
    IF counters = <<>> THEN <<>>
    ELSE CounterAdd(counters[1], SumCounters(Tail(counters)))

\* extract_words(text): the call stops at the first text nlp refuses
extract_words(text) ==
    LET docs == docs_of(text)
        bad == {i \in 1..Len(docs) : nlp_raises(docs[i])}
    IN  IF bad = {}
        THEN [text |-> text, called |-> TRUE, raised |-> FALSE,
              handed |-> docs,
              counts |-> SumCounters([i \in 1..Len(docs) |->
                                        _process_doc(docs[i])])]
        ELSE LET first == CHOOSE i \in bad : \A j \in bad : i <= j
             IN  [text |-> text, called |-> TRUE, raised |-> TRUE,
                  handed |-> SubSeq(docs, 1, first), counts |-> <<>>]

\* no dataset tree is looked at
NoTree ==
    /\ tree = "none"
    /\ config = <<>>
    /\ csv = [n \in ItemNames |-> Missing]
    /\ wordsTxt = [n \in ItemNames |-> Missing]
    /\ excludeCsv = [n \in ItemNames |-> Missing]
    /\ pools = [p \in PoolNames |-> Missing]
    /\ NoOutputs
    /\ showDir = <<>>
    /\ episodes = NotDiscovered

treeVars ==
    <<inputVars, uniqueCsv, commonWordsCsv, commonWordsTxt, thresholdTxt,
      commonPoolCsv, mergedPoolCsv, exitCode, episodeVars>>

\* a text, extract_words not called yet
InitExtract ==
    /\ NoTree
    /\ output = NoOutputDir
    /\ book = NoBook
    /\ reader = NoReader
    /\ batch = NoBatch
    /\ download = NoDownload
    /\ driver = NoDriver
    /\ lexicon = NoLexicon
    /\ aggregate = NotAggregating
    /\ \E text \in Texts : extract = [NotExtracted EXCEPT !.text = text]

ExtractWords ==
    /\ ~extract.called
    /\ extract' = extract_words(extract.text)
    /\ UNCHANGED <<treeVars, aggregate, lexicon, driver, download, batch, reader, book, output>>

NextExtract == ExtractWords

SpecExtract == InitExtract /\ [][NextExtract]_vars

----------------------------------------------------------------------------
(* parse_book / parse_show: aggregation over the source units *)

\* largest number of chapters or episodes of an item
MaxUnits == 2

\* chapter numbers 0, 1, 2 as extract_chapters returns them (sorted), and
\* (season, episode) identities in the order of sorted(episodes.items())
ChapterIds == << <<0>>, <<1>>, <<2>> >>
EpisodeIds == << <<1, 1>>, <<1, 2>>, <<2, 1>> >>

\* the Counters extract_words may return for one unit
UnitCounters ==
    UNION {[D -> 1..MaxCount] :
            D \in {K \in SUBSET Words : Cardinality(K) <= MaxKeys}}

\* the units of an item: a sorted selection of ids, each with the Counter of
\* its text; an episode may have no subtitle line at all
UnitLists(ids, mayBeEmpty) ==
    UNION {
        {[i \in 1..Cardinality(S) |->
            [id |-> SelectSeq(ids, LAMBDA u : u \in S)[i],
             no_lines |-> f[SelectSeq(ids, LAMBDA u : u \in S)[i]][1],
             counts |-> f[SelectSeq(ids, LAMBDA u : u \in S)[i]][2]]] :
         f \in [S -> {e \in mayBeEmpty \X UnitCounters :
                        e[1] => e[2] = EmptyDict}]} :
        S \in {K \in SUBSET Range(ids) : Cardinality(K) <= MaxUnits}}

\* the total is the count of the last unit
add_total_last(total, count) == count

\* words[word]["total"] += count
add_total(total, count) == total + count

\* process_book: chapters[ch_num] = chapters.get(ch_num, 0) + count;
\* process_show: episodes[(season, episode)] = count
unit_count(kind, old, count) ==
    IF kind = "book" THEN old + count ELSE count

\* the inner loop over word_counts.items() for one unit
consume_unit(kind, words, unit) ==
    [w \in DOMAIN words \cup DOMAIN unit.counts |->
        LET old == IF w \in DOMAIN words THEN words[w]
                   ELSE [total |-> 0, units |-> <<>>]
        IN  IF w \notin DOMAIN unit.counts THEN old
            ELSE [total |-> add_total(old.total, unit.counts[w]),
                  units |->
                    [u \in DOMAIN old.units \cup {unit.id} |->
                        IF u = unit.id
                        THEN unit_count(kind,
                                IF u \in DOMAIN old.units THEN old.units[u]
                                ELSE 0,
                                unit.counts[w])
                        ELSE old.units[u]]]]

\* a book with its chapters or a show with its episodes, nothing consumed
InitAggregate ==
    /\ NoTree
    /\ output = NoOutputDir
    /\ book = NoBook
    /\ reader = NoReader
    /\ batch = NoBatch
    /\ download = NoDownload
    /\ driver = NoDriver
    /\ lexicon = NoLexicon
    /\ extract = NotExtracted
    /\ \E kind \in {"book", "show"} :
        \E units \in UnitLists(IF kind = "book" THEN ChapterIds
                               ELSE EpisodeIds,
                               IF kind = "book" THEN {FALSE} ELSE BOOLEAN) :
            aggregate = [kind |-> kind, units |-> units, consumed |-> 0,
                         words |-> <<>>, returned |-> FALSE]

\* one iteration of "for ch_num, text in chapters"
ConsumeChapter ==
    /\ aggregate.kind = "book"
    /\ aggregate.consumed < Len(aggregate.units)
    /\ LET unit == aggregate.units[aggregate.consumed + 1]
       IN  aggregate' =
            [aggregate EXCEPT
                !.consumed = @ + 1,
                !.words = consume_unit("book", @, unit)]
    /\ UNCHANGED <<treeVars, extract, lexicon, driver, download, batch, reader, book, output>>

\* one iteration of "for (season, episode), srt_path in sorted(...)":
\* an episode without lines is passed over
ConsumeEpisode ==
    /\ aggregate.kind = "show"
    /\ aggregate.consumed < Len(aggregate.units)
    /\ LET unit == aggregate.units[aggregate.consumed + 1]
       IN  aggregate' =
            [aggregate EXCEPT
                !.consumed = @ + 1,
                !.words = IF unit.no_lines THEN @
                          ELSE consume_unit("show", @, unit)]
    /\ UNCHANGED <<treeVars, extract, lexicon, driver, download, batch, reader, book, output>>

\* return dict(words)
ReturnWords ==
    /\ aggregate.kind \in {"book", "show"}
    /\ aggregate.consumed = Len(aggregate.units)
    /\ ~aggregate.returned
    /\ aggregate' = [aggregate EXCEPT !.returned = TRUE]
    /\ UNCHANGED <<treeVars, extract, lexicon, driver, download, batch, reader, book, output>>

NextAggregate == ConsumeChapter \/ ConsumeEpisode \/ ReturnWords

SpecAggregate == InitAggregate /\ [][NextAggregate]_vars

----------------------------------------------------------------------------
(* NGLS merge_lists *)

\* longest parsed source list
MaxListLen == 2

\* three of the source tags: "BSL", "NGSL", "NGSL-GR"
TagBSL == <<66, 83, 76>>
TagNGSL == <<78, 71, 83, 76>>
TagNGSLGR == <<78, 71, 83, 76, 45, 71, 82>>
Tags == {TagBSL, TagNGSL, TagNGSLGR}

\* the (tag, parser, filename) entries of sources in list order
sources == <<TagNGSL, TagBSL, TagNGSLGR>>

Nbsp == 160

\* raw words a parser may return: "cat", "Cat", "a\xa0b" and a lone "\xa0"
WordWithNbsp == <<97, Nbsp, 98>>
LoneNbsp == <<Nbsp>>
RawWords == {cat, CatUpper, WordWithNbsp, LoneNbsp}

RawLists == UNION {[1..n -> RawWords] : n \in 0..MaxListLen}

\* the case of the word is kept
normalize_keep_case(word) ==
    Strip([i \in 1..Len(word) |-> IF word[i] = Nbsp THEN 32 ELSE word[i]])

\* word.replace("\xa0", " ").strip().lower()
normalize(word) ==
    Lower(Strip([i \in 1..Len(word) |->
                    IF word[i] = Nbsp THEN 32 ELSE word[i]]))

\* word_tags after the loop over sources: a source whose file is missing is
\* skipped, empty normalized words are dropped, tags accumulate as a set
word_tags_of(lists) ==
    LET present == {tag \in Range(sources) : lists[tag].exists}
        words(tag) ==
            {normalize(lists[tag].words[i]) :
                i \in 1..Len(lists[tag].words)} \ {<<>>}
    IN  [w \in UNION {words(tag) : tag \in present} |->
            {tag \in present : w \in words(tag)}]

\* the rows of NGSL_combined.csv: sorted words, each with its sorted tags
combined_rows(word_tags) ==
    LET sorted_words == SortStrings(AnyOrder(DOMAIN word_tags))
    IN  [i \in 1..Len(sorted_words) |->
            <<sorted_words[i],
              SortStrings(AnyOrder(word_tags[sorted_words[i]]))>>]

NoList == [exists |-> FALSE, words |-> <<>>]

\* two source files that are missing or parse to any list, and a third that
\* is missing or parses to one of two fixed lists
InitLexicon ==
    /\ NoTree
    /\ output = NoOutputDir
    /\ book = NoBook
    /\ reader = NoReader
    /\ batch = NoBatch
    /\ download = NoDownload
    /\ driver = NoDriver
    /\ extract = NotExtracted
    /\ aggregate = NotAggregating
    /\ \E ngsl, bsl \in {NoList} \cup
                {[exists |-> TRUE, words |-> l] : l \in RawLists} :
        \E gr \in {NoList, [exists |-> TRUE, words |-> <<cat>>],
                   [exists |-> TRUE, words |-> <<CatUpper, cat>>]} :
            lexicon =
                [lists |-> [tag \in Tags |->
                                IF tag = TagNGSL THEN ngsl
                                ELSE IF tag = TagBSL THEN bsl ELSE gr],
                 merged |-> FALSE, rows |-> <<>>]

\* main of merge_lists.py
MergeLists ==
    /\ lexicon.lists # <<>>
    /\ ~lexicon.merged
    /\ lexicon' = [lexicon EXCEPT
                    !.merged = TRUE,
                    !.rows = combined_rows(word_tags_of(lexicon.lists))]
    /\ UNCHANGED <<treeVars, extract, aggregate, driver, download, batch, reader, book, output>>

NextLexicon == MergeLists

SpecLexicon == InitLexicon /\ [][NextLexicon]_vars

----------------------------------------------------------------------------
(* lyrics pipeline.py: the driver and its worker pool *)

\* largest --workers value
MaxWorkers == 2

\* largest number of configured artists
MaxArtists == 2

\* largest number of songs a download saves
MaxSaves == 1

\* Genius artist names "A" and "B"
RealA == <<65>>
RealB == <<66>>

\* characters kept by re.sub(r"[^\w\s\-]", "", name)
KeepChar(c) ==
    \/ c \in 48..57
    \/ c \in 65..90
    \/ c \in 97..122
    \/ c = 95
    \/ c = 45
    \/ IsSpace(c)

\* re.sub(r"\s+", "_", s)
RECURSIVE Underscored(_)
Underscored(s) ==
    IF s = <<>> THEN <<>>
    ELSE IF IsSpace(s[1])
         THEN IF Len(s) > 1 /\ IsSpace(s[2]) THEN Underscored(Tail(s))
              ELSE <<95>> \o Underscored(Tail(s))
         ELSE <<s[1]>> \o Underscored(Tail(s))

\* download_lyrics.sanitize_filename, and the same two substitutions of
\* find_artist_dir
sanitize_filename(name) ==
    Lower(Underscored(Strip(SelectSeq(name, KeepChar))))

\* the directories of output_dir that can come to exist
DirNames == {sanitize_filename(RealA), sanitize_filename(RealB)}

\* an artist directory: _dataset.json (raw) with the artist of its first
\* entry and the workers that have it open for writing, dataset.json
\* (clean), and the task of this run that wrote the vocabulary outputs (0
\* when none did)
NoDir ==
    [exists |-> FALSE, raw |-> FALSE, artist |-> <<>>, writing |-> {},
     clean |-> FALSE, vocabulary |-> 0]

\* a directory an earlier run left complete
OldDir(d) ==
    [exists |-> TRUE, raw |-> TRUE,
     artist |-> IF d = sanitize_filename(RealA) THEN RealA ELSE RealB,
     writing |-> {}, clean |-> TRUE, vocabulary |-> 0]

\* the artist lists of config.yaml: names "a", "b", possibly one name twice
ArtistLists ==
    {l \in UNION {[1..n -> {ItemA, ItemB}] : n \in 1..MaxArtists} :
        l[1] = ItemA}

\* the driver after main has submitted process_artist for every artist;
\* genius[name] is the name of the primary artist Genius resolves the search
\* to (the exact match, or the first hit), empty when there is no hit
InitDriver ==
    /\ NoTree
    /\ output = NoOutputDir
    /\ book = NoBook
    /\ reader = NoReader
    /\ batch = NoBatch
    /\ download = NoDownload
    /\ extract = NotExtracted
    /\ aggregate = NotAggregating
    /\ lexicon = NoLexicon
    /\ \E artists \in ArtistLists :
        \E skip_download, token \in BOOLEAN :
          \E workers \in 1..MaxWorkers :
            \E resolved \in {RealA, RealB, <<>>} :
              \E old \in {{}, DirNames} :
                driver =
                    [mode |-> "pipeline",
                     skip_download |-> skip_download,
                     token |-> token,
                     artists |-> artists,
                     genius |-> [n \in {ItemA, ItemB} |->
                                    IF n = ItemA THEN resolved ELSE RealB],
                     workers |-> IF workers < Len(artists) THEN workers
                                 ELSE Len(artists),
                     pc |-> [i \in 1..Len(artists) |-> "queued"],
                     worker |-> [i \in 1..Len(artists) |-> 0],
                     saved |-> [i \in 1..Len(artists) |-> 0],
                     steps |-> [i \in 1..Len(artists) |-> <<>>],
                     scan |-> [i \in 1..Len(artists) |-> {}],
                     artist_dir |-> [i \in 1..Len(artists) |-> <<>>],
                     status |-> [i \in 1..Len(artists) |-> "PENDING"],
                     failure |-> [i \in 1..Len(artists) |-> ""],
                     nlp |-> [t \in 1..MaxWorkers |-> 0],
                     loads |-> [t \in 1..MaxWorkers |-> 0],
                     users |-> [m \in 1..MaxArtists |-> {}],
                     dirs |-> [d \in DirNames |->
                                IF d \in old THEN OldDir(d) ELSE NoDir],
                     writers |-> [d \in DirNames |-> {}],
                     overlap |-> FALSE,
                     results |-> <<>>]

Tasks == IF driver.mode = "off" THEN {} ELSE 1..Len(driver.artists)

Running(i) == driver.pc[i] \notin {"queued", "done", "collected"}

\* find_artist_dir up to its loop: the candidate directory is returned if
\* it is one, or else the loop over iterdir begins
find_candidate(d, i) ==
    LET safe == sanitize_filename(d.artists[i])
    IN  IF safe \in DirNames /\ d.dirs[safe].exists
        THEN [d EXCEPT !.pc[i] = "dataset", !.artist_dir[i] = safe]
        ELSE [d EXCEPT
                !.pc[i] = "scan",
                !.scan[i] = {dir \in DirNames : d.dirs[dir].exists}]

\* process_artist returns "<name>: FAILED" followed by what failed
Fail(d, i, what) ==
    [d EXCEPT !.pc[i] = "done", !.status[i] = "FAILED", !.failure[i] = what]

\* the token is asked for whether or not the download is skipped
needs_token_always(skip_download) == TRUE

\* "if not skip_download:" around the test of the token
needs_token(skip_download) == ~skip_download

\* the exception of run_download is swallowed and the artist goes on
except_download_ignored(d, i) == find_candidate(d, i)

\* "except Exception as e: return ... FAILED at download"
except_download(d, i) == Fail(d, i, "at download")

\* a pool thread takes the oldest queued task and runs process_artist up to
\* the call of run_download; idle threads are interchangeable, the lowest
\* one is taken
StartArtist ==
    /\ \E t \in 1..driver.workers :
        /\ \A j \in Tasks : Running(j) => driver.worker[j] # t
        /\ \A u \in 1..(t - 1) :
                \E j \in Tasks : Running(j) /\ driver.worker[j] = u
        /\ \E i \in Tasks :
            /\ driver.pc[i] = "queued"
            /\ \A j \in Tasks : driver.pc[j] = "queued" => i <= j
            /\ LET taken == [driver EXCEPT !.worker[i] = t]
               IN  driver' =
                    IF needs_token(driver.skip_download) /\ ~driver.token
                    THEN Fail(taken, i, "no Genius API token")
                    ELSE IF driver.skip_download
                    THEN find_candidate(taken, i)
                    ELSE [taken EXCEPT !.pc[i] = "search"]
    /\ UNCHANGED <<treeVars, extract, aggregate, lexicon, download, batch, reader, book, output>>

\* download_artist_lyrics up to the song loop: the search raises, finds no
\* artist and returns, or the artist directory is made
SearchArtist ==
    /\ \E i \in Tasks :
        /\ driver.pc[i] = "search"
        /\ LET real == driver.genius[driver.artists[i]]
               d == sanitize_filename(real)
           IN  \/ driver' = except_download(driver, i)
               \/ /\ real = <<>>
                  /\ driver' = find_candidate(
                        [driver EXCEPT !.steps[i] = Append(@, "download")], i)
               \/ /\ real # <<>>
                  /\ driver' = [driver EXCEPT
                        !.pc[i] = "songs",
                        !.dirs[d].exists = TRUE]
    /\ UNCHANGED <<treeVars, extract, aggregate, lexicon, download, batch, reader, book, output>>

\* a song was fetched: open(dataset_path, "w") of the song loop
OpenDataset ==
    /\ \E i \in Tasks :
        /\ driver.pc[i] = "songs"
        /\ driver.saved[i] < MaxSaves
        /\ LET d == sanitize_filename(driver.genius[driver.artists[i]])
           IN  driver' = [driver EXCEPT
                    !.pc[i] = "dump",
                    !.saved[i] = @ + 1,
                    !.dirs[d].raw = TRUE,
                    !.dirs[d].writing = @ \cup {i},
                    !.writers[d] = @ \cup {i},
                    !.overlap = @ \/ driver.dirs[d].writing # {}]
    /\ UNCHANGED <<treeVars, extract, aggregate, lexicon, download, batch, reader, book, output>>

\* json.dump is through and the file is closed
CloseDataset ==
    /\ \E i \in Tasks :
        /\ driver.pc[i] = "dump"
        /\ LET real == driver.genius[driver.artists[i]]
               d == sanitize_filename(real)
           IN  driver' = [driver EXCEPT
                    !.pc[i] = "songs",
                    !.dirs[d].artist = real,
                    !.dirs[d].writing = @ \ {i}]
    /\ UNCHANGED <<treeVars, extract, aggregate, lexicon, download, batch, reader, book, output>>

\* the song loop is over and download_artist_lyrics returns
EndDownload ==
    /\ \E i \in Tasks :
        /\ driver.pc[i] = "songs"
        /\ driver' = find_candidate(
                [driver EXCEPT !.steps[i] = Append(@, "download")], i)
    /\ UNCHANGED <<treeVars, extract, aggregate, lexicon, download, batch, reader, book, output>>

\* one iteration of the loop of find_artist_dir, in any iterdir order: the
\* _dataset.json of the directory is read if it exists; a file another worker
\* is writing may fail to parse
ScanDir ==
    /\ \E i \in Tasks :
        /\ driver.pc[i] = "scan"
        /\ IF driver.scan[i] = {}
           THEN driver' = Fail(driver, i, "artist directory not found")
           ELSE \E d \in driver.scan[i] :
                LET dir == driver.dirs[d]
                    racing == dir.writing \ {i} # {}
                    seen == [driver EXCEPT !.overlap = @ \/ (dir.raw /\ racing)]
                IN  \/ /\ dir.raw
                       /\ racing
                       /\ driver' = [seen EXCEPT !.pc[i] = "done",
                                                 !.status[i] = "RAISED"]
                    \/ /\ dir.raw
                       /\ dir.artist # <<>>
                       /\ Lower(dir.artist) = Lower(driver.artists[i])
                       /\ driver' = [seen EXCEPT !.pc[i] = "dataset",
                                                 !.artist_dir[i] = d]
                    \/ /\ ~(dir.raw /\ dir.artist # <<>>
                            /\ Lower(dir.artist) = Lower(driver.artists[i]))
                       /\ driver' = [seen EXCEPT !.scan[i] = @ \ {d}]
    /\ UNCHANGED <<treeVars, extract, aggregate, lexicon, download, batch, reader, book, output>>

\* step 2: run_build_dataset reads _dataset.json and writes dataset.json
BuildDataset ==
    /\ \E i \in Tasks :
        /\ driver.pc[i] = "dataset"
        /\ LET d == driver.artist_dir[i]
               dir == driver.dirs[d]
               seen == [driver EXCEPT
                            !.overlap = @ \/ (dir.raw /\ dir.writing \ {i} # {})]
           IN  IF ~dir.raw THEN driver' = Fail(driver, i, "no _dataset.json")
               ELSE \/ driver' = Fail(seen, i, "at build_dataset")
                    \/ driver' = [seen EXCEPT
                            !.pc[i] = "vocabulary",
                            !.dirs[d].clean = TRUE,
                            !.steps[i] = Append(@, "build_dataset")]
    /\ UNCHANGED <<treeVars, extract, aggregate, lexicon, download, batch, reader, book, output>>

\* the number of models the first n threads have loaded
RECURSIVE SumLoads(_, _)
SumLoads(loads, n) == IF n = 0 THEN 0 ELSE loads[n] + SumLoads(loads, n - 1)

\* a model is loaded for every call
has_nlp_never(local) == FALSE

\* hasattr(_thread_local, "nlp") in the calling thread; local is the model
\* in the thread's slot, 0 when the attribute is not set
has_nlp(local) == local # 0

\* the models loaded so far, numbered in load order
Loaded == {m \in 1..MaxArtists : \E t \in 1..MaxWorkers : driver.loads[t] > 0
                                    /\ m <= SumLoads(driver.loads, MaxWorkers)}

\* step 3: run_build_vocabulary; get_nlp loads a model into the slot of the
\* calling thread when the slot is empty and returns the model of the slot;
\* build_vocabulary.process_artist returns at once when the directory has
\* no songs.json (a file no step of the pipeline writes), returns without
\* writing when no word is found, and else writes dataset.csv and words.txt
\* from songs.json; spacy.load or process_artist may raise
BuildVocabulary ==
    /\ \E i \in Tasks :
        /\ driver.pc[i] = "vocabulary"
        /\ LET t == driver.worker[i]
               d == driver.artist_dir[i]
               loading == ~has_nlp(driver.nlp[t])
               model == IF loading THEN Cardinality(Loaded) + 1
                        ELSE driver.nlp[t]
               got == [driver EXCEPT
                        !.nlp[t] = model,
                        !.loads[t] = IF loading THEN @ + 1 ELSE @,
                        !.users[model] = @ \cup {t}]
               returned == [got EXCEPT
                            !.pc[i] = "done",
                            !.status[i] = "OK",
                            !.steps[i] = Append(@, "build_vocabulary")]
           IN  IF ~driver.dirs[d].clean
               THEN driver' = Fail(driver, i, "no dataset.json")
               ELSE \/ /\ loading
                       /\ driver' = Fail(driver, i, "at vocabulary")
                    \/ driver' = returned
                    \/ driver' = Fail(got, i, "at vocabulary")
                    \/ driver' = [returned EXCEPT !.dirs[d].vocabulary = i]
    /\ UNCHANGED <<treeVars, extract, aggregate, lexicon, download, batch,
                   reader, book, output>>

\* a raised future is left out of the results
collected_if_returned(results, i, status) ==
    IF status = "RAISED" THEN results
    ELSE Append(results, [task |-> i, ok |-> status = "OK"])

\* result = future.result(), or the FAILED text when it raises;
\* results.append(result)
collected(results, i, status) ==
    Append(results, [task |-> i, ok |-> status = "OK"])

\* one iteration of "for future in as_completed(futures)"
CollectResult ==
    /\ \E i \in Tasks :
        /\ driver.pc[i] = "done"
        /\ driver' = [driver EXCEPT
                !.pc[i] = "collected",
                !.results = collected(@, i, driver.status[i])]
    /\ UNCHANGED <<treeVars, extract, aggregate, lexicon, download, batch, reader, book, output>>

(* The steps of the worker threads. *)
WorkerStep ==
    \/ StartArtist
    \/ SearchArtist
    \/ OpenDataset
    \/ CloseDataset
    \/ EndDownload
    \/ ScanDir
    \/ BuildDataset
    \/ BuildVocabulary

(* main: as_completed hands the futures over in the order in which they
   complete and the main thread does nothing but wait for them, so a
   completed future is collected before the next worker step is looked at. *)
NextDriver ==
    \/ CollectResult
    \/ (\A j \in Tasks : driver.pc[j] # "done") /\ WorkerStep

SpecDriver == InitDriver /\ [][NextDriver]_vars

----------------------------------------------------------------------------
(* lyrics download_lyrics.py: the song loop of one artist, run and run again *)

\* largest number of songs collected for the artist (max_songs)
MaxSongs == 3

\* largest number of times the download is run for the artist
MaxRuns == 2

\* _dataset.json: absent, opened for writing and still empty, or a dumped list
NoDataset == [exists |-> FALSE, dumped |-> FALSE, entries |-> <<>>]
Truncated == [exists |-> TRUE, dumped |-> FALSE, entries |-> <<>>]
Dumped(dataset) == [exists |-> TRUE, dumped |-> TRUE, entries |-> dataset]

\* "dataset = []; saved = 0" and the first turn of the loop over all_songs;
\* fetched[i] is how the fetch of song i ended in this run
fresh_run(songs, run, file, kept) ==
    [phase |-> "loop", songs |-> songs, run |-> run, i |-> 0, saved |-> 0,
     dataset |-> <<>>, fetched |-> [s \in 1..songs |-> "not yet"],
     file |-> file, kept |-> kept]

\* the first run of the download, the songs of the artist collected
InitDownload ==
    /\ NoTree
    /\ output = NoOutputDir
    /\ book = NoBook
    /\ reader = NoReader
    /\ batch = NoBatch
    /\ extract = NotExtracted
    /\ aggregate = NotAggregating
    /\ lexicon = NoLexicon
    /\ driver = NoDriver
    /\ \E songs \in 0..MaxSongs :
        download = fresh_run(songs, 1, NoDataset, <<>>)

\* the number is the position of the song in all_songs
song_number_by_position(saved, i) == i

\* meta["number"] after "saved += 1"
song_number(saved, i) == saved

\* one turn of the loop up to the open of _dataset.json: the fetch raises or
\* the lyrics are empty and the loop continues, or the song is saved, added
\* to dataset, and _dataset.json is opened for writing
FetchSong ==
    /\ download.phase = "loop"
    /\ download.i < download.songs
    /\ LET i == download.i + 1
       IN  \/ \E how \in {"raised", "no lyrics"} :
                download' = [download EXCEPT !.i = i, !.fetched[i] = how]
           \/ download' = [download EXCEPT
                    !.phase = "dump",
                    !.i = i,
                    !.fetched[i] = "saved",
                    !.saved = @ + 1,
                    !.dataset = Append(@,
                        [number |-> song_number(download.saved + 1, i),
                         genius_id |-> i]),
                    !.file = Truncated]
    /\ UNCHANGED <<treeVars, extract, aggregate, lexicon, driver, batch, reader, book, output>>

\* json.dump(dataset, f) and the close of the file
DumpDataset ==
    /\ download.phase = "dump"
    /\ download' = [download EXCEPT
            !.phase = "loop",
            !.file = Dumped(download.dataset)]
    /\ UNCHANGED <<treeVars, extract, aggregate, lexicon, driver, batch, reader, book, output>>

\* the loop is over: the index is written and the function returns
SaveIndex ==
    /\ download.phase = "loop"
    /\ download.i = download.songs
    /\ download' = [download EXCEPT !.phase = "done"]
    /\ UNCHANGED <<treeVars, extract, aggregate, lexicon, driver, batch, reader, book, output>>

\* the run is interrupted, or has ended, and the download is run again for
\* the same artist; kept is what _dataset.json held when the run began
RunAgain ==
    /\ download.phase # "off"
    /\ download.run < MaxRuns
    /\ download' = fresh_run(download.songs, download.run + 1,
                             download.file, download.file.entries)
    /\ UNCHANGED <<treeVars, extract, aggregate, lexicon, driver, batch, reader, book, output>>

NextDownload ==
    \/ FetchSong
    \/ DumpDataset
    \/ SaveIndex
    \/ RunAgain

SpecDownload == InitDownload /\ [][NextDownload]_vars

----------------------------------------------------------------------------
(* parse_book --all, parse_show --all, epub_to_markdown: one run over every
   document *)

\* largest number of books, shows or EPUB files of a run
MaxDocs == 3

\* a source document: well-formed, malformed (an EPUB whose container cannot
\* be read, a subtitle file whose bytes are no UTF-8), or without any text
DocKinds == {"good", "malformed", "empty"}

DocLists == UNION {[1..n -> DocKinds] : n \in 1..MaxDocs}

InitBatch ==
    /\ NoTree
    /\ output = NoOutputDir
    /\ book = NoBook
    /\ reader = NoReader
    /\ extract = NotExtracted
    /\ aggregate = NotAggregating
    /\ lexicon = NoLexicon
    /\ driver = NoDriver
    /\ download = NoDownload
    /\ \E tool \in {"parse_book", "parse_show", "epub_to_markdown"} :
        \E docs \in DocLists :
            batch = [tool |-> tool, docs |-> docs, outcome |-> <<>>,
                     state |-> "running"]

\* the next document of the loop
NextDoc == batch.docs[Len(batch.outcome) + 1]

Looping(tool) ==
    /\ batch.tool = tool
    /\ batch.state = "running"
    /\ Len(batch.outcome) < Len(batch.docs)

\* filepath.read_text(encoding): utf-8-sig refuses bytes that are no UTF-8,
\* latin-1 decodes any bytes
read_text(kind, encoding) ==
    IF encoding = "utf-8-sig" /\ kind = "malformed" THEN "UnicodeDecodeError"
    ELSE "text"

\* parse_srt: the first encoding of the sequence that decodes, the lines of
\* the text; no lines when none decodes
RECURSIVE parse_srt(_, _)
parse_srt(kind, encodings) ==
    IF encodings = <<>> THEN "no lines"
    ELSE IF read_text(kind, encodings[1]) = "text"
         THEN IF kind = "empty" THEN "no lines" ELSE "lines"
         ELSE parse_srt(kind, Tail(encodings))

\* epub.read_epub raises on a container it cannot read
read_epub(kind) == IF kind = "malformed" THEN "raised" ELSE "book"

\* run_book for the next book of "for name in books": read_epub is called
\* without a handler, a book without words is left without files
RunBook ==
    /\ Looping("parse_book")
    /\ batch' =
        IF read_epub(NextDoc) = "raised"
        THEN [batch EXCEPT !.state = "aborted"]
        ELSE [batch EXCEPT !.outcome =
                Append(@, IF NextDoc = "empty" THEN "skipped" ELSE "written")]
    /\ UNCHANGED <<treeVars, extract, aggregate, lexicon, driver, download, reader, book, output>>

\* run_show for the next show of "for name in shows", the show having one
\* episode
RunShowOfAll ==
    /\ Looping("parse_show")
    /\ batch' = [batch EXCEPT !.outcome =
            Append(@, IF parse_srt(NextDoc, <<"utf-8-sig", "latin-1">>)
                            = "no lines"
                      THEN "skipped" ELSE "written")]
    /\ UNCHANGED <<treeVars, extract, aggregate, lexicon, driver, download, reader, book, output>>

\* one turn of "for epub_path in epubs" of epub_to_markdown.main
ConvertEpub ==
    /\ Looping("epub_to_markdown")
    /\ batch' = [batch EXCEPT !.outcome =
            Append(@, IF read_epub(NextDoc) = "raised" THEN "skipped"
                      ELSE "written")]
    /\ UNCHANGED <<treeVars, extract, aggregate, lexicon, driver, download, reader, book, output>>

\* the loop is over and main prints its last line
BatchDone ==
    /\ batch.tool # "none"
    /\ batch.state = "running"
    /\ Len(batch.outcome) = Len(batch.docs)
    /\ batch' = [batch EXCEPT !.state = "done"]
    /\ UNCHANGED <<treeVars, extract, aggregate, lexicon, driver, download, reader, book, output>>

NextBatch ==
    \/ RunBook
    \/ RunShowOfAll
    \/ ConvertEpub
    \/ BatchDone

SpecBatch == InitBatch /\ [][NextBatch]_vars

----------------------------------------------------------------------------
(* NGLS merge_lists.py: the format readers *)

\* largest number of lines (or rows) of a source file
MaxLines == 4

\* "references", "Browne", "http", "Rank", "Word", "Lemma", "#"
StrReferences == <<114, 101, 102, 101, 114, 101, 110, 99, 101, 115>>
StrBrowne == <<66, 114, 111, 119, 110, 101>>
StrHttp == <<104, 116, 116, 112>>
StrRank == <<82, 97, 110, 107>>
StrWord == <<87, 111, 114, 100>>
StrLemma == <<76, 101, 109, 109, 97>>
StrHash == <<35>>

\* the lines of a description text: "References", a blank line, the word
\* "cat", the title "BSL 1.20", a comment "#c" and an indented one, a
\* citation "Browne, C.", a link "http://x", and a line of 100 characters
LineReferences == <<82, 101, 102, 101, 114, 101, 110, 99, 101, 115>>
LineBlank == <<>>
LineTitle == <<66, 83, 76, 32, 49, 46, 50, 48>>
LineComment == <<35, 99>>
LineIndented == <<32, 35, 99>>
LineCitation == <<66, 114, 111, 119, 110, 101, 44, 32, 67, 46>>
LineLink == <<104, 116, 116, 112, 58, 47, 47, 120>>
LineLong == [i \in 1..100 |-> 120]
DescriptionLines ==
    {LineReferences, LineBlank, cat, LineTitle, LineComment, LineIndented,
     LineCitation, LineLink, LineLong}

\* the lines of a ranked list: the header "Rank<TAB>Word", the entries
\* "4.<TAB>cat" and "4. cat", the bare word "cat", a blank line
LineRankWord == <<82, 97, 110, 107, 9, 87, 111, 114, 100>>
LineEntryTab == <<52, 46, 9, 99, 97, 116>>
LineEntryDot == <<52, 46, 32, 99, 97, 116>>
RankedLines == {LineRankWord, LineEntryTab, LineEntryDot, cat, LineBlank}

\* s.startswith(prefix)
StartsWith(s, prefix) ==
    Len(prefix) <= Len(s) /\ SubSeq(s, 1, Len(prefix)) = prefix

\* sub in s
Contains(s, sub) ==
    \E i \in 1..(Len(s) - Len(sub) + 1) :
        SubSeq(s, i, i + Len(sub) - 1) = sub

\* the word list is taken to start after the last line
default_start_at_end(lines) == Len(lines)

\* "start = 0" before the search for the boundary
default_start(lines) == 0

\* the loop "for i, line in enumerate(lines)" of parse_description_txt from
\* line i on (0-based), and the value of start after it
RECURSIVE find_start(_, _, _, _)
find_start(lines, i, found_ref, start) ==
    IF i = Len(lines) THEN start
    ELSE LET line == lines[i + 1]
             stripped == Strip(line)
             found == found_ref
                        \/ Contains(Lower(Strip(Lower(line))), StrReferences)
             blank_start == IF found /\ stripped = <<>> THEN i + 1 ELSE start
         IN  IF /\ found
                /\ blank_start > 0
                /\ stripped # <<>>
                /\ ~StartsWith(line, StrBrowne)
                /\ ~StartsWith(line, StrHttp)
                /\ ~StartsWith(stripped, StrBrowne)
                /\ Len(stripped) < 100
             THEN i
             ELSE find_start(lines, i + 1, found, blank_start)

\* the second loop of parse_description_txt: the stripped lines that are
\* not empty and do not start with "#"
emitted_lines(lines) ==
    LET stripped == [i \in 1..Len(lines) |-> Strip(lines[i])]
    IN  SelectSeq(stripped,
                  LAMBDA l : l # <<>> /\ ~StartsWith(l, StrHash))

\* parse_description_txt with skip_until_blank_after_references
parse_description_txt(lines) ==
    LET start == find_start(lines, 0, FALSE, default_start(lines))
    IN  emitted_lines(SubSeq(lines, start + 1, Len(lines)))

\* line.split("\t")[-1]
AfterLastTab(s) ==
    LET tabs == {i \in 1..Len(s) : s[i] = 9}
    IN  IF tabs = {} THEN s
        ELSE SubSeq(s, (CHOOSE i \in tabs : \A j \in tabs : j <= i) + 1,
                    Len(s))

\* the last index of the run of whitespace that starts at i
RECURSIVE SpaceRunEnd(_, _)
SpaceRunEnd(s, i) ==
    IF i + 1 <= Len(s) /\ IsSpace(s[i + 1]) THEN SpaceRunEnd(s, i + 1) ELSE i

\* re.match(r"\d+\.\s+(.*)", line): group 1 in a one-element tuple, or the
\* empty tuple when there is no match
match_rank_dot(s) ==
    IF s = <<>> \/ ~IsDigit(s[1]) THEN <<>>
    ELSE LET d == DigitRunEnd(s, 1)
         IN  IF d + 2 <= Len(s) /\ s[d + 1] = 46 /\ IsSpace(s[d + 2])
             THEN <<SubSeq(s, SpaceRunEnd(s, d + 2) + 1, Len(s))>>
             ELSE <<>>

\* the loop of parse_ndl from the given lines on
RECURSIVE ndl_words(_, _)
ndl_words(lines, in_words) ==
    IF lines = <<>> THEN <<>>
    ELSE LET line == Strip(lines[1])
         IN  IF StartsWith(line, StrRank) /\ Contains(line, StrWord)
             THEN ndl_words(Tail(lines), TRUE)
             ELSE (IF in_words /\ line # <<>>
                   THEN IF 9 \in Range(line)
                        THEN <<Strip(AfterLastTab(line))>>
                        ELSE IF 46 \in Range(line)
                                /\ match_rank_dot(line) # <<>>
                             THEN <<Strip(match_rank_dot(line)[1])>>
                             ELSE <<>>
                   ELSE <<>>)
                  \o ndl_words(Tail(lines), in_words)

parse_ndl(lines) == ndl_words(lines, FALSE)

\* parse_ngsl_csv / parse_tsl_csv / parse_ngsl_gr_csv: the stripped
\* non-empty cells of the named column, row.get(column, "") being empty
\* when the header has no such column
parse_csv_column(file, column) ==
    LET at == {k \in 1..Len(file.header) : file.header[k] = column}
        cell(row) == IF at = {} THEN <<>>
                     ELSE Strip(row[CHOOSE k \in at : \A j \in at : j <= k])
        cells == [i \in 1..Len(file.rows) |-> cell(file.rows[i])]
    IN  SelectSeq(cells, LAMBDA w : w # <<>>)

\* the files given to the readers
DescriptionFiles == UNION {[1..n -> DescriptionLines] : n \in 0..MaxLines}
RankedFiles == UNION {[1..n -> RankedLines] : n \in 0..MaxLines}
CsvFiles ==
    {[header |-> h, rows |-> r] :
        h \in {<<StrLemma>>, <<StrWord>>},
        r \in UNION {[1..n -> {<<cat>>, <<dogPadded>>, <<LineBlank>>}] :
                        n \in 0..2}}

\* a source file that exists, given to its reader by the loop of main
InitReader ==
    /\ NoTree
    /\ output = NoOutputDir
    /\ book = NoBook
    /\ extract = NotExtracted
    /\ aggregate = NotAggregating
    /\ lexicon = NoLexicon
    /\ driver = NoDriver
    /\ download = NoDownload
    /\ batch = NoBatch
    /\ \/ \E file \in DescriptionFiles :
            reader = [format |-> "description", file |-> file,
                      read |-> FALSE, words |-> <<>>, log |-> <<>>]
       \/ \E file \in RankedFiles :
            reader = [format |-> "ranked", file |-> file,
                      read |-> FALSE, words |-> <<>>, log |-> <<>>]
       \/ \E file \in CsvFiles :
            reader = [format |-> "csv", file |-> file,
                      read |-> FALSE, words |-> <<>>, log |-> <<>>]

\* one turn of the loop of main for a source whose file exists: the parser
\* is called and the number of extracted words is printed
Parsed(raw_words) ==
    reader' = [reader EXCEPT !.read = TRUE, !.words = raw_words,
                             !.log = Append(@, "words extracted")]

\* parse_bsl / parse_nawl
ReadDescription ==
    /\ reader.format = "description"
    /\ ~reader.read
    /\ Parsed(parse_description_txt(reader.file))
    /\ UNCHANGED <<treeVars, extract, aggregate, lexicon, driver, download,
                   batch, book, output>>

ReadRanked ==
    /\ reader.format = "ranked"
    /\ ~reader.read
    /\ Parsed(parse_ndl(reader.file))
    /\ UNCHANGED <<treeVars, extract, aggregate, lexicon, driver, download,
                   batch, book, output>>

\* parse_ngsl_csv reads the column "Lemma"
ReadCsv ==
    /\ reader.format = "csv"
    /\ ~reader.read
    /\ Parsed(parse_csv_column(reader.file, StrLemma))
    /\ UNCHANGED <<treeVars, extract, aggregate, lexicon, driver, download,
                   batch, book, output>>

NextReader ==
    \/ ReadDescription
    \/ ReadRanked
    \/ ReadCsv

SpecReader == InitReader /\ [][NextReader]_vars

----------------------------------------------------------------------------
(* books epub_parser.py: extract_chapters, one document and one element
   at a time.  A text is stood for by the number of its characters after
   stripping, which is all that extract_chapters looks at. *)

MaxDocuments == 2
MaxElements == 2

HEADING_TAGS == {"h1", "h2", "h3"}
MIN_TEXT_LEN == 40
IMPLICIT_CHAPTER_LEN == 200

LooseLens == {0, IMPLICIT_CHAPTER_LEN - MIN_TEXT_LEN + 1,
              IMPLICIT_CHAPTER_LEN - MIN_TEXT_LEN + 2}

\* what find_all(["h1", "h2", "h3", "p", "blockquote"]) can return: a
\* heading with or without text, a paragraph or blockquote that is empty,
\* one character short of MIN_TEXT_LEN or just long enough
Elements ==
    [tag : HEADING_TAGS, len : {5}]
        \cup {[tag |-> "h2", len |-> 0], [tag |-> "p", len |-> 0]}
        \cup [tag : {"p", "blockquote"},
              len : {MIN_TEXT_LEN - 1, MIN_TEXT_LEN}]

ElementLists ==
    UNION {[1..n -> Elements] : n \in 0..MaxElements}

\* a document whose body is empty or white space
BlankDocument == [blank |-> TRUE, els |-> <<>>, loose |-> 0]

\* the documents of a book: the elements of the body in document order and
\* the characters of text that stand outside all of them
Documents ==
    {BlankDocument}
        \cup [blank : {FALSE}, els : ElementLists, loose : LooseLens]

RECURSIVE SumLens(_)
SumLens(els) ==
    IF els = <<>> THEN 0 ELSE Head(els).len + SumLens(Tail(els))

\* soup.find(HEADING_TAGS): an element of a heading tag, with or without text
has_headings(doc) ==
    \E k \in 1..Len(doc.els) : doc.els[k].tag \in HEADING_TAGS

\* len(soup.get_text(strip=True))
plain_len(doc) == doc.loose + SumLens(doc.els)

\* chapters.setdefault(num, [])
setdefault(chapters, num) ==
    IF num \in DOMAIN chapters THEN chapters
    ELSE [n \in DOMAIN chapters \cup {num} |->
            IF n = num THEN <<>> ELSE chapters[n]]

is_noise_or_exact(len) == len = 0 \/ len <= MIN_TEXT_LEN

\* not text or len(text) < MIN_TEXT_LEN
is_noise(len) == len = 0 \/ len < MIN_TEXT_LEN

InitBook ==
    /\ NoTree
    /\ output = NoOutputDir
    /\ extract = NotExtracted
    /\ aggregate = NotAggregating
    /\ lexicon = NoLexicon
    /\ driver = NoDriver
    /\ download = NoDownload
    /\ batch = NoBatch
    /\ reader = NoReader
    /\ book = [pc |-> "next", read |-> 0, doc |-> BlankDocument, pos |-> 1,
               chapter_num |-> 0, chapters |-> <<>>, result |-> <<>>]

\* the loop head: a document whose body is blank is passed over
SkipDocument ==
    /\ book.pc = "next"
    /\ book.read < MaxDocuments
    /\ book' = [book EXCEPT !.read = @ + 1, !.doc = BlankDocument, !.pos = 1]
    /\ UNCHANGED <<treeVars, extract, aggregate, lexicon, driver, download,
                   batch, reader, output>>

\* the loop head for a document with a body: the test for an implicit chapter
OpenDocument ==
    /\ book.pc = "next"
    /\ book.read < MaxDocuments
    /\ \E doc \in Documents :
        /\ ~doc.blank
        /\ LET implicit == ~has_headings(doc)
                              /\ plain_len(doc) > IMPLICIT_CHAPTER_LEN
               num == IF implicit THEN book.chapter_num + 1
                      ELSE book.chapter_num
           IN  book' = [book EXCEPT
                    !.read = @ + 1,
                    !.doc = doc,
                    !.pos = 1,
                    !.pc = IF doc.els = <<>> THEN "next" ELSE "elements",
                    !.chapter_num = num,
                    !.chapters = IF implicit THEN setdefault(@, num) ELSE @]
    /\ UNCHANGED <<treeVars, extract, aggregate, lexicon, driver, download,
                   batch, reader, output>>

\* one round of the loop over the elements of the document
VisitElement ==
    /\ book.pc = "elements"
    /\ LET el == book.doc.els[book.pos]
           last == book.pos = Len(book.doc.els)
           after == [book EXCEPT
                        !.pos = IF last THEN 1 ELSE @ + 1,
                        !.doc = IF last THEN BlankDocument ELSE @,
                        !.pc = IF last THEN "next" ELSE "elements"]
       IN  IF el.tag \in HEADING_TAGS
           THEN IF el.len > 0
                THEN book' = [after EXCEPT
                        !.chapter_num = @ + 1,
                        !.chapters = setdefault(@, book.chapter_num + 1)]
                ELSE book' = after
           ELSE IF is_noise(el.len)
                THEN book' = after
                ELSE book' = [after EXCEPT
                        !.chapters =
                            [setdefault(@, book.chapter_num) EXCEPT
                                ![book.chapter_num] = Append(@, el.len)]]
    /\ UNCHANGED <<treeVars, extract, aggregate, lexicon, driver, download,
                   batch, reader, output>>

\* the chapters in ascending number, those without text left out
RECURSIVE chapter_result(_, _)
chapter_result(chapters, nums) ==
    IF nums = {} THEN <<>>
    ELSE LET ch_num == CHOOSE n \in nums : \A m \in nums : n <= m
             rest == chapter_result(chapters, nums \ {ch_num})
         IN  IF chapters[ch_num] # <<>>
             THEN <<[num |-> ch_num, text |-> chapters[ch_num]]>> \o rest
             ELSE rest

\* the book has no further document: the result is built and returned
ReturnChapters ==
    /\ book.pc = "next"
    /\ book' = [book EXCEPT
            !.pc = "done",
            !.result = chapter_result(book.chapters, DOMAIN book.chapters)]
    /\ UNCHANGED <<treeVars, extract, aggregate, lexicon, driver, download,
                   batch, reader, output>>

NextBook ==
    \/ SkipDocument
    \/ OpenDocument
    \/ VisitElement
    \/ ReturnChapters

SpecBook == InitBook /\ [][NextBook]_vars

----------------------------------------------------------------------------
(* lyrics: the stages build_dataset, build_vocabulary, build_common_words and
   build_unique run by hand, one after another, over the output directory.
   A file is stood for by the stage that wrote it, its column names and
   whether it holds any data row. *)

OutputArtists == {"a", "b"}

Absent == [by |-> "", columns |-> <<>>, rows |-> FALSE]

Written(stage, columns, rows) ==
    [by |-> stage, columns |-> columns, rows |-> rows]

\* fieldnames of build_dataset
SongColumns ==
    <<"number", "title", "artist", "album", "album_release_date",
      "release_date", "pageviews", "word_count", "line_count",
      "featured_artists", "genius_url", "genius_id", "lyrics">>

\* the columns of the DataFrame of build_vocabulary
VocabularyColumns ==
    <<"word", "lemma", "pos", "total_count", "song_count", "songs",
      "avg_per_song", "is_stopword", "frequency_rank">>

\* the artist directories exist; _dataset.json and songs.json are there or
\* not, and no stage has run
InitOutput ==
    /\ NoTree
    /\ extract = NotExtracted
    /\ aggregate = NotAggregating
    /\ lexicon = NoLexicon
    /\ driver = NoDriver
    /\ download = NoDownload
    /\ batch = NoBatch
    /\ reader = NoReader
    /\ book = NoBook
    /\ \E raw, songs \in [OutputArtists -> BOOLEAN] :
        output = [mode |-> "stages",
                  raw |-> raw,
                  songs |-> songs,
                  dataset_json |-> [a \in OutputArtists |-> Absent],
                  dataset_csv |-> [a \in OutputArtists |-> Absent],
                  words_txt |-> [a \in OutputArtists |-> Absent],
                  unique_csv |-> [a \in OutputArtists |-> Absent],
                  common_words_csv |-> Absent,
                  common_words_txt |-> Absent,
                  threshold_txt |-> [p \in ThresholdFiles |-> Absent]]

\* build_dataset.py <artist_dir>: has_songs tells whether _dataset.json
\* lists any song
RunBuildDataset(a) ==
    /\ output.mode = "stages"
    /\ IF ~output.raw[a]
       THEN UNCHANGED output
       ELSE \E has_songs \in BOOLEAN :
            output' = [output EXCEPT
                !.dataset_json[a] =
                    Written("build_dataset", SongColumns, has_songs),
                !.dataset_csv[a] =
                    Written("build_dataset", SongColumns, has_songs)]
    /\ UNCHANGED <<treeVars, extract, aggregate, lexicon, driver, download,
                   batch, reader, book>>

\* build_vocabulary.py <artist>: process_artist for one artist directory;
\* has_words tells whether the songs yield any word and has_lemmas whether
\* any of the words is not a stop word
RunBuildVocabulary(a) ==
    /\ output.mode = "stages"
    /\ IF ~output.songs[a]
       THEN UNCHANGED output
       ELSE \E has_words, has_lemmas \in BOOLEAN :
            IF ~has_words
            THEN UNCHANGED output
            ELSE output' = [output EXCEPT
                    !.dataset_csv[a] =
                        Written("build_vocabulary", VocabularyColumns, TRUE),
                    !.words_txt[a] =
                        Written("build_vocabulary", <<>>, has_lemmas)]
    /\ UNCHANGED <<treeVars, extract, aggregate, lexicon, driver, download,
                   batch, reader, book>>

\* build_common_words.py: artist_words holds the artists whose words.txt has
\* a word
RunCommonWords ==
    /\ output.mode = "stages"
    /\ LET artist_words ==
            {a \in OutputArtists :
                output.words_txt[a].by # "" /\ output.words_txt[a].rows}
       IN  IF artist_words = {}
           THEN UNCHANGED output
           ELSE \E has_common \in BOOLEAN :
                output' = [output EXCEPT
                    !.common_words_csv =
                        Written("build_common_words",
                                <<"word", "artist_count", "artist_pct",
                                  "artists">>, TRUE),
                    !.common_words_txt =
                        Written("build_common_words", <<>>, has_common),
                    !.threshold_txt = [p \in ThresholdFiles |->
                        Written("build_common_words", <<>>, TRUE)]]
    /\ UNCHANGED <<treeVars, extract, aggregate, lexicon, driver, download,
                   batch, reader, book>>

\* load_artist_words raises KeyError on the first data row of a dataset.csv
\* that has no word or no total_count column
load_raises(file) ==
    /\ file.rows
    /\ \/ "word" \notin Range(file.columns)
       \/ "total_count" \notin Range(file.columns)

\* lyrics build_unique.py: load_artists finds the directories that have a
\* dataset.csv; with fewer than two the script exits, so a run that writes
\* has both artists in names
RunUnique ==
    /\ output.mode = "stages"
    /\ LET artists == {a \in OutputArtists : output.dataset_csv[a].by # ""}
       IN  IF \/ Cardinality(artists) < 2
              \/ \E a \in artists : load_raises(output.dataset_csv[a])
           THEN UNCHANGED output
           ELSE \E has_unique \in [artists -> BOOLEAN], has_common \in BOOLEAN :
                /\ (\E a \in artists : ~output.dataset_csv[a].rows)
                        => ~has_common
                /\ \A a \in artists :
                        ~output.dataset_csv[a].rows => ~has_unique[a]
                /\ output' = [output EXCEPT
                    !.unique_csv = [a \in OutputArtists |->
                        IF a \in artists
                        THEN Written("build_unique",
                                     <<"word", "total_count">>, has_unique[a])
                        ELSE @[a]],
                    !.common_words_csv =
                        Written("build_unique",
                                <<"word", "total">>
                                    \o <<"a", "b">>, has_common),
                    !.common_words_txt =
                        Written("build_unique", <<>>, has_common)]
    /\ UNCHANGED <<treeVars, extract, aggregate, lexicon, driver, download,
                   batch, reader, book>>

NextOutput ==
    \/ \E a \in OutputArtists : RunBuildDataset(a)
    \/ \E a \in OutputArtists : RunBuildVocabulary(a)
    \/ RunCommonWords
    \/ RunUnique

SpecOutput == InitOutput /\ [][NextOutput]_vars

----------------------------------------------------------------------------
(* What the claims speak about *)

\* the words and the (word, count) pairs a dataset or view file lists
KeysOfCsv(f) == {f.rows[i][1] : i \in 1..Len(f.rows)}

PairsOfCsv(f) == {<<f.rows[i][1], f.rows[i][2]>> : i \in 1..Len(f.rows)}

CountIn(f, w) ==
    LET i == CHOOSE j \in 1..Len(f.rows) : f.rows[j][1] = w IN f.rows[i][2]

NoWordTwice(f) == Cardinality(KeysOfCsv(f)) = Len(f.rows)

\* the items build_unique combines in this tree
CombinedItems ==
    IF tree = "lyrics" THEN {n \in ItemNames : csv[n].exists}
    ELSE DOMAIN config

UniqueScript ==
    CASE tree = "TV_shows" -> "build_unique_tv"
      [] tree = "books" -> "build_unique_books"
      [] tree = "lyrics" -> "build_unique_lyrics"
      [] OTHER -> "none"

UniqueRan == UniqueScript \in Scripts /\ exitCode[UniqueScript] = 0

RECURSIVE SumCounts(_, _)
SumCounts(w, S) ==
    IF S = {} THEN 0
    ELSE LET n == CHOOSE x \in S : TRUE
         IN  CountIn(csv[n], w) + SumCounts(w, S \ {n})

\* C1: after build_unique, item A's unique view lists (w, c) exactly when
\* A's map has w -> c and no other item's map has the key w
C1_UniqueView ==
    UniqueRan =>
        \A A \in CombinedItems :
            /\ uniqueCsv[A].exists
            /\ NoWordTwice(uniqueCsv[A])
            /\ PairsOfCsv(uniqueCsv[A]) =
                {p \in PairsOfCsv(csv[A]) :
                    \A B \in CombinedItems \ {A} : p[1] \notin KeysOfCsv(csv[B])}

\* three items, a word of A shared with exactly one other item, and a
\* non-empty unique view
C1_Witness ==
    /\ UniqueRan
    /\ Cardinality(CombinedItems) = 3
    /\ \E A \in CombinedItems :
        /\ uniqueCsv[A].rows # <<>>
        /\ \E w \in KeysOfCsv(csv[A]) :
            Cardinality({B \in CombinedItems \ {A} :
                            w \in KeysOfCsv(csv[B])}) = 1

\* C2: write_common lists exactly the words that are keys of every item's
\* map, with the items' counts in the per-item columns and their sum as total
C2_CommonView ==
    UniqueRan =>
        LET f == commonWordsCsv
        IN  /\ f.by = UniqueScript
            /\ Range(f.items) = CombinedItems
            /\ Len(f.items) = Cardinality(CombinedItems)
            /\ NoWordTwice(f)
            /\ KeysOfCsv(f) =
                {w \in Words : \A n \in CombinedItems : w \in KeysOfCsv(csv[n])}
            /\ \A i \in 1..Len(f.rows) :
                /\ Len(f.rows[i][3]) = Len(f.items)
                /\ \A k \in 1..Len(f.items) :
                    f.rows[i][3][k] = CountIn(csv[f.items[k]], f.rows[i][1])
                /\ f.rows[i][2] = SumCounts(f.rows[i][1], CombinedItems)
            /\ commonWordsTxt.by = UniqueScript
            /\ commonWordsTxt.rows = [i \in 1..Len(f.rows) |-> f.rows[i][1]]

\* a common word with different counts in two items, next to a word that
\* is not common
C2_Witness ==
    /\ UniqueRan
    /\ \E i \in 1..Len(commonWordsCsv.rows) :
        /\ commonWordsCsv.rows[i][3][1] # commonWordsCsv.rows[i][3][2]
        /\ commonWordsCsv.rows[i][2] >= 3
    /\ \E n \in CombinedItems :
        KeysOfCsv(csv[n]) \ KeysOfCsv(commonWordsCsv) # {}

PoolScript ==
    CASE tree = "TV_shows" -> "build_pool_tv"
      [] tree = "books" -> "build_pool_books"
      [] OTHER -> "none"

PoolRan == PoolScript \in Scripts /\ exitCode[PoolScript] = 0

MergeRan == exitCode["merge_pools"] = 0

CommonWordsRan == exitCode["build_common_words"] = 0

\* the normalised lines of an item's word list and the normalised cells of
\* its exclusion file
ListedWords(n) ==
    IF wordsTxt[n].exists
    THEN {Lower(Strip(wordsTxt[n].rows[i])) : i \in 1..Len(wordsTxt[n].rows)}
    ELSE {}

ExcludedWords(n) ==
    IF excludeCsv[n].exists
    THEN {Lower(Strip(excludeCsv[n].rows[i][1])) :
            i \in 1..Len(excludeCsv[n].rows)}
    ELSE {}

\* the configured items that list w and do not exclude it
Holders(w) ==
    {n \in DOMAIN config : w \in ListedWords(n) /\ w \notin ExcludedWords(n)}

\* the category pools that list w
PoolHolders(w) ==
    {p \in PoolNames :
        /\ pools[p].exists
        /\ w \in {Lower(Strip(pools[p].rows[i][1])) :
                    i \in 1..Len(pools[p].rows)}}

\* how often label l occurs in a member list
Occurrences(members, l) ==
    Cardinality({i \in 1..Len(members) : members[i] = l})

\* C3 as stated: the written membership count of a word is the number of
\* distinct labels of the sources that hold it, and is at most the number
\* of sources
C3_Original ==
    /\ PoolRan =>
        \A i \in 1..Len(commonPoolCsv.rows) :
            LET r == commonPoolCsv.rows[i]
            IN  /\ r[3] = Cardinality({config[n] : n \in Holders(r[1])})
                /\ r[3] <= Cardinality(DOMAIN config)
    /\ MergeRan =>
        \A i \in 1..Len(mergedPoolCsv.rows) :
            LET r == mergedPoolCsv.rows[i]
            IN  /\ r[3] = Cardinality(PoolHolders(r[1]))
                /\ r[3] <= Cardinality(PoolNames)

\* C3: the written membership count of a word is the number of source items
\* that hold it, which is the length of its member list with repeated labels
\* counted; it is the number of distinct labels when the holders' labels
\* differ pairwise, and it is at most the number of sources
C3_MemberCount ==
    /\ PoolRan =>
        \A i \in 1..Len(commonPoolCsv.rows) :
            LET r == commonPoolCsv.rows[i]
                H == Holders(r[1])
            IN  /\ r[3] = Cardinality(H)
                /\ r[3] = Len(r[2])
                /\ r[3] >= Cardinality({config[n] : n \in H})
                /\ (\A m, n \in H : m # n => config[m] # config[n])
                        => r[3] = Cardinality({config[n] : n \in H})
                /\ r[3] <= Cardinality(DOMAIN config)
    /\ MergeRan =>
        \A i \in 1..Len(mergedPoolCsv.rows) :
            LET r == mergedPoolCsv.rows[i]
            IN  /\ r[3] = Cardinality(PoolHolders(r[1]))
                /\ r[3] = Cardinality(Range(r[2]))
                /\ r[3] <= Cardinality(PoolNames)

\* two items with the same label hold one word: the count is 2, the number
\* of distinct labels 1
C3_Witness ==
    /\ PoolRan
    /\ \E i \in 1..Len(commonPoolCsv.rows) :
        /\ commonPoolCsv.rows[i][3] = 2
        /\ Cardinality(Range(commonPoolCsv.rows[i][2])) = 1

\* rows run strictly by (count in column c descending, word ascending)
StrictlyOrdered(rows, c) ==
    \A i \in 1..(Len(rows) - 1) :
        \/ rows[i][c] > rows[i + 1][c]
        \/ (rows[i][c] = rows[i + 1][c] /\ StrLess(rows[i][1], rows[i + 1][1]))

\* the datasets are A = {cat: 3, dog: 1}, B = {cat: 2, bird: 5}
ExampleInput ==
    /\ csv[ItemA].exists
    /\ csv[ItemB].exists
    /\ ~csv[ItemC].exists
    /\ PairsOfCsv(csv[ItemA]) = {<<cat, 3>>, <<dog, 1>>}
    /\ PairsOfCsv(csv[ItemB]) = {<<cat, 2>>, <<bird, 5>>}

\* C4: the pool, unique and common views (and the dataset write_csv writes)
\* have their rows strictly in (count descending, word ascending) order and
\* list no word twice; on the example input the pool is cat(2), bird(1),
\* dog(1), unique(A) is [dog], unique(B) is [bird], common is [cat total 5]
C4_RowOrder ==
    /\ commonPoolCsv.exists =>
        StrictlyOrdered(commonPoolCsv.rows, 3) /\ NoWordTwice(commonPoolCsv)
    /\ mergedPoolCsv.exists =>
        StrictlyOrdered(mergedPoolCsv.rows, 3) /\ NoWordTwice(mergedPoolCsv)
    /\ \A n \in ItemNames :
        /\ uniqueCsv[n].exists =>
            StrictlyOrdered(uniqueCsv[n].rows, 2) /\ NoWordTwice(uniqueCsv[n])
        /\ (csv[n].exists /\ csv[n].by = "parse") =>
            StrictlyOrdered(csv[n].rows, 2) /\ NoWordTwice(csv[n])
    /\ (commonWordsCsv.exists /\ commonWordsCsv.by = UniqueScript) =>
        StrictlyOrdered(commonWordsCsv.rows, 2) /\ NoWordTwice(commonWordsCsv)
    /\ (ExampleInput /\ PoolRan) =>
        [i \in 1..Len(commonPoolCsv.rows) |->
            <<commonPoolCsv.rows[i][1], commonPoolCsv.rows[i][3]>>]
          = << <<cat, 2>>, <<bird, 1>>, <<dog, 1>> >>
    /\ (ExampleInput /\ UniqueRan) =>
        /\ uniqueCsv[ItemA].rows = << <<dog, 1>> >>
        /\ uniqueCsv[ItemB].rows = << <<bird, 5>> >>
        /\ [i \in 1..Len(commonWordsCsv.rows) |->
                <<commonWordsCsv.rows[i][1], commonWordsCsv.rows[i][2]>>]
             = << <<cat, 5>> >>

\* the pool of the example input, with its tie between bird and dog
C4_Witness ==
    /\ ExampleInput
    /\ PoolRan
    /\ Len(commonPoolCsv.rows) = 3
    /\ commonPoolCsv.rows[2][3] = commonPoolCsv.rows[3][3]

\* the number of artists whose non-empty word list has w, and the number of
\* artists with a non-empty word list
ArtistsOf(w) ==
    {n \in ItemNames :
        /\ wordsTxt[n].exists
        /\ w \in {Strip(wordsTxt[n].rows[i]) : i \in 1..Len(wordsTxt[n].rows)}}

ArtistCount(w) == Cardinality(ArtistsOf(w))

TotalArtists ==
    Cardinality({n \in ItemNames :
        /\ wordsTxt[n].exists
        /\ \E i \in 1..Len(wordsTxt[n].rows) : Strip(wordsTxt[n].rows[i]) # <<>>})

\* the threshold word list of pct: common_words.txt for 100
ThresholdList(pct) == IF pct = 100 THEN commonWordsTxt ELSE thresholdTxt[pct]

CommonWordsOutputs ==
    /\ CommonWordsRan
    /\ commonWordsCsv.by = "build_common_words"
    /\ commonWordsTxt.by = "build_common_words"

\* a word list runs strictly by (artist count descending, word ascending)
ListOrderedByCount(f) ==
    \A i \in 1..(Len(f.rows) - 1) :
        \/ ArtistCount(f.rows[i]) > ArtistCount(f.rows[i + 1])
        \/ /\ ArtistCount(f.rows[i]) = ArtistCount(f.rows[i + 1])
           /\ StrLess(f.rows[i], f.rows[i + 1])

\* a word list runs strictly by ascending word
ListAscending(f) ==
    \A i \in 1..(Len(f.rows) - 1) : StrLess(f.rows[i], f.rows[i + 1])

CeilPct(total, pct) == (total * pct + 99) \div 100

\* C6 as stated: the threshold list of pct holds exactly the words present
\* in at least ceil(total * pct / 100) artists' word sets
C6_Original ==
    CommonWordsOutputs =>
        \A pct \in {100} \cup ThresholdFiles :
            Range(ThresholdList(pct).rows) =
                {w \in Words : ArtistCount(w) >= CeilPct(TotalArtists, pct)}

\* C7: a run of a combiner that finds its own earlier output on disk writes
\* that output again, row for row and member for member, whatever iteration
\* orders the two runs took and whatever the other scripts left behind
C7_SameOutput ==
    [][ /\ \A n \in ItemNames :
            (uniqueCsv[n].exists /\ uniqueCsv'[n].by = uniqueCsv[n].by)
                => uniqueCsv'[n] = uniqueCsv[n]
        /\ (commonWordsCsv.exists /\ commonWordsCsv'.by = commonWordsCsv.by)
                => commonWordsCsv' = commonWordsCsv
        /\ (commonWordsTxt.exists /\ commonWordsTxt'.by = commonWordsTxt.by)
                => commonWordsTxt' = commonWordsTxt
        /\ \A p \in ThresholdFiles :
            thresholdTxt[p].exists => thresholdTxt'[p] = thresholdTxt[p]
        /\ commonPoolCsv.exists => commonPoolCsv' = commonPoolCsv
        /\ mergedPoolCsv.exists => mergedPoolCsv' = mergedPoolCsv
      ]_vars

\* build_unique rewrote the common view over the one build_common_words had
\* left, next to the threshold lists still on disk, and both the unique and
\* the common view have rows whose order the set iteration could have changed
C7_Witness ==
    /\ tree = "lyrics"
    /\ UniqueRan
    /\ CommonWordsRan
    /\ commonWordsCsv.by = "build_unique_lyrics"
    /\ thresholdTxt[50].exists
    /\ Len(thresholdTxt[50].rows) >= 2
    /\ \E n \in ItemNames : Len(uniqueCsv[n].rows) >= 1
    /\ Len(commonWordsCsv.rows) >= 1

\* C8: in build_pool a word is in the pool exactly when some item lists it
\* and does not exclude it, and its member list holds each label once for
\* every item of that label that lists the word and does not exclude it
C8_CleanSet ==
    PoolRan =>
        /\ KeysOfCsv(commonPoolCsv) = {w \in Words : Holders(w) # {}}
        /\ \A i \in 1..Len(commonPoolCsv.rows) :
            LET r == commonPoolCsv.rows[i]
            IN  \A l \in {LabelX, LabelY, LabelZ} :
                    Occurrences(r[2], l) =
                        Cardinality({n \in Holders(r[1]) : config[n] = l})

\* an item lists a word it excludes and the other item keeps, so that the
\* row bears the other label alone; another listed word is excluded by its
\* only lister and is in no row
C8_Witness ==
    /\ PoolRan
    /\ \E n \in DOMAIN config :
        \E w \in ListedWords(n) \cap ExcludedWords(n) :
            \E i \in 1..Len(commonPoolCsv.rows) :
                /\ commonPoolCsv.rows[i][1] = w
                /\ config[n] \notin Range(commonPoolCsv.rows[i][2])
    /\ \E n \in DOMAIN config :
        \E v \in ListedWords(n) \cap ExcludedWords(n) :
            v \notin KeysOfCsv(commonPoolCsv)

\* C9 as stated: a word of item A's exclusion set is not in A's unique view
\* and is not counted as present in A for the common view
C9_Original ==
    UniqueRan =>
        \A A \in CombinedItems :
            \A w \in ExcludedWords(A) :
                /\ w \notin KeysOfCsv(uniqueCsv[A])
                /\ w \notin KeysOfCsv(commonWordsCsv)

\* C9: build_unique takes no exclusion file into account: a word A excludes
\* is in A's unique view exactly when A's dataset has it and no other
\* dataset has it, and it is in the common view exactly when every dataset
\* has it; the exclusion set is subtracted in the pool alone
C9_ExclusionInPoolOnly ==
    /\ UniqueRan =>
        \A A \in CombinedItems :
            \A w \in ExcludedWords(A) :
                /\ w \in KeysOfCsv(uniqueCsv[A]) <=>
                    /\ w \in KeysOfCsv(csv[A])
                    /\ \A B \in CombinedItems \ {A} : w \notin KeysOfCsv(csv[B])
                /\ w \in KeysOfCsv(commonWordsCsv) <=>
                    \A B \in CombinedItems : w \in KeysOfCsv(csv[B])
    /\ PoolRan =>
        \A w \in Words :
            (\A n \in DOMAIN config :
                w \in ListedWords(n) => w \in ExcludedWords(n))
                    => w \notin KeysOfCsv(commonPoolCsv)

\* a word A excludes is in A's unique view
C9_Witness ==
    /\ UniqueRan
    /\ \E A \in CombinedItems :
        ExcludedWords(A) \cap KeysOfCsv(uniqueCsv[A]) # {}

\* the subtitle files of the season directories, as (directory, file) paths,
\* and those of them that parse to the identity ep
SubtitlePaths ==
    {p \in EntryNames \X FileNames :
        /\ p[1] \in DOMAIN showDir
        /\ showDir[p[1]].is_dir
        /\ p[2] \in showDir[p[1]].files
        /\ MatchesSrt(p[2])
        /\ parse_episode_from_filename(p[2]) # <<>>}

SourcesOf(ep) ==
    {p \in SubtitlePaths : parse_episode_from_filename(p[2]) = ep}

StrLeq(s, t) == s = t \/ StrLess(s, t)

\* exactly one path per identity found, each a source of its identity
OnePerIdentity ==
    /\ DOMAIN episodes.paths =
        {parse_episode_from_filename(p[2]) : p \in SubtitlePaths}
    /\ \A ep \in DOMAIN episodes.paths : episodes.paths[ep] \in SourcesOf(ep)

\* C10 as stated: among the files of one identity, in whichever season
\* directories they lie, the file with the alphabetically first file name
\* is returned
C10_Original ==
    episodes.returned =>
        /\ OnePerIdentity
        /\ \A ep \in DOMAIN episodes.paths :
            \A p \in SourcesOf(ep) : StrLeq(episodes.paths[ep][2], p[2])

\* C10: discover_episodes returns one path per identity found; among the
\* files of one identity it returns the one in the season directory whose
\* name is first, and within that directory the one whose file name is
\* first, whatever order the listings came in
C10_FirstByPath ==
    episodes.returned =>
        /\ OnePerIdentity
        /\ \A ep \in DOMAIN episodes.paths :
            \A p \in SourcesOf(ep) :
                LET q == episodes.paths[ep]
                IN  \/ StrLess(q[1], p[1])
                    \/ (q[1] = p[1] /\ StrLeq(q[2], p[2]))

\* an identity with two sources in one directory and a source with an
\* earlier file name in a later directory
C10_Witness ==
    /\ episodes.returned
    /\ \E ep \in DOMAIN episodes.paths :
        LET q == episodes.paths[ep]
        IN  /\ \E p \in SourcesOf(ep) : p[1] = q[1] /\ p[2] # q[2]
            /\ \E p \in SourcesOf(ep) : p[1] # q[1] /\ StrLess(p[2], q[2])

\* the chunks are whole paragraphs: splitting the handed texts again gives
\* the paragraphs of the input, none cut
WholeParagraphs ==
    LET paragraphs == SplitLines(extract.text)
        lens == [i \in 1..Len(extract.handed) |->
                    Len(SplitLines(extract.handed[i]))]
        before(i) == SumSeq(SubSeq(lens, 1, i - 1))
    IN  \A i \in 1..Len(extract.handed) :
            /\ before(i) + lens[i] <= Len(paragraphs)
            /\ SplitLines(extract.handed[i]) =
                SubSeq(paragraphs, before(i) + 1, before(i) + lens[i])

\* C11 as stated: for a text longer than CHUNK_SIZE every chunk handed to
\* the tokenizer is a run of whole paragraphs and is at most CHUNK_SIZE long
C11_Original ==
    (extract.called /\ Len(extract.text) > CHUNK_SIZE) =>
        /\ WholeParagraphs
        /\ \A i \in 1..Len(extract.handed) :
            Len(extract.handed[i]) <= CHUNK_SIZE

\* C12: when extract_words returns, the handed chunks hold every paragraph
\* of the text once and in order, and the summed per-chunk counts are the
\* counts of the whole text
C12_ChunkSum ==
    (extract.called /\ ~extract.raised) =>
        /\ WholeParagraphs
        /\ JoinLines(extract.handed) = extract.text
        /\ \A w \in TextChars \ {Newline} :
            LET n == Cardinality({i \in 1..Len(extract.text) :
                                    extract.text[i] = w})
            IN  IF n = 0 THEN w \notin DOMAIN extract.counts
                ELSE w \in DOMAIN extract.counts /\ extract.counts[w] = n
        /\ DOMAIN extract.counts \subseteq TextChars \ {Newline}

\* a long text cut into three chunks, the last one partial, with a word
\* that occurs in two chunks
C12_Witness ==
    /\ extract.called
    /\ ~extract.raised
    /\ Len(extract.text) > CHUNK_SIZE
    /\ Len(extract.handed) = 3
    /\ Len(extract.handed[3]) < Len(extract.handed[1])
    /\ \E w \in DOMAIN extract.counts :
        /\ extract.counts[w] >= 2
        /\ w \in Range(extract.handed[1]) \cap Range(extract.handed[2])

\* the units consumed so far and what unit i holds of word w
ConsumedUnits == SubSeq(aggregate.units, 1, aggregate.consumed)

UnitsWith(w) ==
    {i \in 1..aggregate.consumed : w \in DOMAIN aggregate.units[i].counts}

RECURSIVE SumOverUnits(_, _)
SumOverUnits(w, I) ==
    IF I = {} THEN 0
    ELSE LET i == CHOOSE j \in I : TRUE
         IN  aggregate.units[i].counts[w] + SumOverUnits(w, I \ {i})

\* C13: after any number of consumed units a word has a record exactly when
\* a consumed unit holds it, its per-unit counts are those of the units that
\* hold it, each counted once and positive, and its total is their sum
C13_Aggregate ==
    aggregate.kind \in {"book", "show"} =>
        /\ DOMAIN aggregate.words = {w \in Words : UnitsWith(w) # {}}
        /\ \A w \in DOMAIN aggregate.words :
            LET rec == aggregate.words[w]
            IN  /\ DOMAIN rec.units =
                    {aggregate.units[i].id : i \in UnitsWith(w)}
                /\ \A i \in UnitsWith(w) :
                    /\ rec.units[aggregate.units[i].id] =
                            aggregate.units[i].counts[w]
                    /\ rec.units[aggregate.units[i].id] > 0
                /\ rec.total = SumOverUnits(w, UnitsWith(w))

\* the call returned after two units that share a word with different
\* counts, next to a word of one unit only
C13_Witness ==
    /\ aggregate.returned
    /\ aggregate.consumed = 2
    /\ \E w \in DOMAIN aggregate.words :
        /\ Cardinality(DOMAIN aggregate.words[w].units) = 2
        /\ aggregate.words[w].total = 3
    /\ \E w \in DOMAIN aggregate.words :
        Cardinality(DOMAIN aggregate.words[w].units) = 1

\* the words of the present source list of tag, folded: non-breaking space
\* to blank, trimmed, lower-cased
FoldedWords(tag) ==
    IF lexicon.lists[tag].exists
    THEN {Lower(Strip([k \in 1..Len(lexicon.lists[tag].words[i]) |->
                        IF lexicon.lists[tag].words[i][k] = 160 THEN 32
                        ELSE lexicon.lists[tag].words[i][k]])) :
            i \in 1..Len(lexicon.lists[tag].words)} \ {<<>>}
    ELSE {}

\* C14: the merged lexicon has exactly one row per non-empty folded word of
\* any source list, in ascending word order, and the row's tags are the
\* tags of the lists that hold a word folding to it, ascending, none twice
C14_MergedLexicon ==
    lexicon.merged =>
        /\ {lexicon.rows[i][1] : i \in 1..Len(lexicon.rows)} =
                UNION {FoldedWords(tag) : tag \in Tags}
        /\ \A i \in 1..(Len(lexicon.rows) - 1) :
                StrLess(lexicon.rows[i][1], lexicon.rows[i + 1][1])
        /\ \A i \in 1..Len(lexicon.rows) :
            LET tags == lexicon.rows[i][2]
            IN  /\ Range(tags) =
                    {tag \in Tags : lexicon.rows[i][1] \in FoldedWords(tag)}
                /\ \A k \in 1..(Len(tags) - 1) : StrLess(tags[k], tags[k + 1])

\* "cat" stands in one list twice in different spellings and in two more
\* lists, next to a word with an inner non-breaking space and a dropped
\* blank word
C14_Witness ==
    /\ lexicon.merged
    /\ Len(lexicon.rows) = 2
    /\ \E i \in 1..Len(lexicon.rows) : Len(lexicon.rows[i][2]) = 3
    /\ \E tag \in Tags : lexicon.lists[tag].words = <<CatUpper, cat>>
    /\ \E tag \in Tags : LoneNbsp \in Range(lexicon.lists[tag].words)

\* the steps process_artist runs for an artist none of whose steps fails
AllSteps ==
    IF driver.skip_download THEN <<"build_dataset", "build_vocabulary">>
    ELSE <<"download", "build_dataset", "build_vocabulary">>

OutcomesOf(i) == {k \in 1..Len(driver.results) : driver.results[k].task = i}

PoolFinished == Tasks # {} /\ \A i \in Tasks : driver.pc[i] = "collected"

\* C15: whichever artists fail or raise, an artist whose own steps succeed
\* has run all its steps, every finished worker has an outcome, and the
\* results hold exactly one outcome for each collected artist, failed or
\* not: one for every selected artist once the pool has finished
C15_Outcomes ==
    /\ \A i \in Tasks :
        /\ driver.pc[i] \in {"done", "collected"} =>
                driver.status[i] \in {"OK", "FAILED", "RAISED"}
        /\ driver.status[i] = "OK" => driver.steps[i] = AllSteps
        /\ Cardinality(OutcomesOf(i)) =
                IF driver.pc[i] = "collected" THEN 1 ELSE 0
        /\ \A k \in OutcomesOf(i) :
                driver.results[k].ok <=> driver.status[i] = "OK"
    /\ PoolFinished => Len(driver.results) = Len(driver.artists)

C15_Witness ==
    /\ PoolFinished
    /\ \E i \in Tasks : driver.status[i] = "RAISED"
    /\ \E i \in Tasks : driver.status[i] = "OK" /\ driver.steps[i] = AllSteps

\* C16: no file is written by two workers, and no worker reads or writes a
\* _dataset.json that another worker has open for writing
C16_Original ==
    driver.mode # "off" =>
        /\ ~driver.overlap
        /\ \A d \in DirNames : Cardinality(driver.writers[d]) <= 1

\* C17: a worker thread loads the model at most once, the loads are no more
\* than the worker threads, and no model is used by two threads
C17_OneLoad ==
    driver.mode # "off" =>
        /\ \A t \in 1..MaxWorkers : driver.loads[t] <= 1
        /\ SumLoads(driver.loads, MaxWorkers) <= driver.workers
        /\ \A m \in 1..MaxArtists : Cardinality(driver.users[m]) <= 1

C17_Witness ==
    /\ \E t \in 1..MaxWorkers :
        /\ driver.loads[t] = 1
        /\ Cardinality({i \in Tasks : driver.worker[i] = t
                            /\ driver.status[i] = "OK"}) >= 2

IdsOf(entries) == {entries[k].genius_id : k \in 1..Len(entries)}

\* C18: in a run that began with songs persisted in _dataset.json by an
\* earlier run, the file holds every one of those songs at every point
C18_Original ==
    (download.phase # "off" /\ download.run > 1) =>
        IdsOf(download.kept) \subseteq IdsOf(download.file.entries)

\* the songs of this run whose fetch ended in "saved", in fetch order
RECURSIVE SavedUpTo(_)
SavedUpTo(i) ==
    IF i = 0 THEN <<>>
    ELSE IF download.fetched[i] = "saved" THEN Append(SavedUpTo(i - 1), i)
         ELSE SavedUpTo(i - 1)

\* C19: a song whose fetch raised or that has no lyrics is left out and the
\* loop goes on to every later song; once a saved song is dumped,
\* _dataset.json is the list of the songs saved so far in this run, in
\* fetch order, numbered 1..k
C19_SkipAndPersist ==
    download.phase # "off" =>
        /\ \A s \in 1..download.songs :
                (download.fetched[s] # "not yet") <=> s <= download.i
        /\ download.phase = "done" => download.i = download.songs
        /\ (download.phase \in {"loop", "done"} /\ download.saved > 0) =>
            /\ download.file = Dumped(download.dataset)
            /\ Len(download.file.entries) = download.saved
            /\ \A k \in 1..download.saved :
                /\ download.file.entries[k].number = k
                /\ download.file.entries[k].genius_id
                        = SavedUpTo(download.i)[k]

C19_Witness ==
    /\ download.phase = "done"
    /\ download.songs = MaxSongs
    /\ download.fetched[1] \in {"raised", "no lyrics"}
    /\ download.fetched[2] = "saved"
    /\ download.fetched[3] = "saved"
    /\ Len(download.file.entries) = 2

\* the configured items without a dataset or without a word list
MissingItems ==
    {n \in DOMAIN config : ~csv[n].exists \/ ~wordsTxt[n].exists}

\* C20: with the input of one configured item missing and at least two
\* items left, build_pool and build_unique end with status 0 and write
\* their outputs from the remaining items
C20_Original ==
    (/\ tree \in {"TV_shows", "books"}
     /\ MissingItems # {}
     /\ Cardinality(DOMAIN config \ MissingItems) >= 2) =>
        /\ exitCode[PoolScript] # NotRun =>
            /\ exitCode[PoolScript] = 0
            /\ commonPoolCsv.exists
        /\ exitCode[UniqueScript] # NotRun =>
            /\ exitCode[UniqueScript] = 0
            /\ commonWordsCsv.exists
            /\ \A n \in DOMAIN config \ MissingItems : uniqueCsv[n].exists

\* C21: a run that has ended has not been aborted and has processed every
\* document, the malformed ones skipped or read, whichever parser it is
C21_Original ==
    (batch.tool # "none" /\ batch.state # "running") =>
        /\ batch.state = "done"
        /\ Len(batch.outcome) = Len(batch.docs)

\* the pools merge_pools finds
PoolsPresent == {p \in PoolNames : pools[p].exists}

\* the configured items build_pool finds a word list for
PoolItems == {n \in DOMAIN config : wordsTxt[n].exists}

\* build_unique has ended with a non-zero status if it ran on fewer than two
\* items
UniqueNeedsTwo ==
    (/\ UniqueScript \in Scripts
     /\ exitCode[UniqueScript] # NotRun
     /\ Cardinality(CombinedItems) < 2) => exitCode[UniqueScript] > 0

\* C22: a combine that ran with fewer than two source items has ended with
\* a non-zero status, whichever of build_unique, build_pool,
\* build_common_words and merge_pools it is
C22_Original ==
    /\ UniqueNeedsTwo
    /\ (/\ PoolScript \in Scripts
        /\ exitCode[PoolScript] # NotRun
        /\ Cardinality(PoolItems) < 2) => exitCode[PoolScript] > 0
    /\ (/\ tree = "lyrics"
        /\ exitCode["build_common_words"] # NotRun
        /\ Cardinality(artists_with_words) < 2) =>
            exitCode["build_common_words"] > 0
    /\ (/\ tree = "merged"
        /\ exitCode["merge_pools"] # NotRun
        /\ Cardinality(PoolsPresent) < 2) => exitCode["merge_pools"] > 0

\* the file has no line that contains "references"
NoReferences(lines) ==
    \A i \in 1..Len(lines) : ~Contains(Lower(lines[i]), StrReferences)

\* the file has a line that contains "references" and no blank line after
\* the first such line
NoBlankFollows(lines) ==
    \E r \in 1..Len(lines) :
        /\ Contains(Lower(lines[r]), StrReferences)
        /\ \A j \in 1..(r - 1) : ~Contains(Lower(lines[j]), StrReferences)
        /\ \A j \in (r + 1)..Len(lines) : Strip(lines[j]) # <<>>

\* the reader did not find the structure it expects in its file
StructureMissing ==
    \/ reader.format = "description" /\ NoReferences(reader.file)
    \/ /\ reader.format = "ranked"
       /\ \A i \in 1..Len(reader.file) :
            ~(StartsWith(Strip(reader.file[i]), StrRank)
                /\ Contains(reader.file[i], StrWord))
    \/ reader.format = "csv" /\ StrLemma \notin Range(reader.file.header)

\* C23: a reader that did not find its expected structure has emitted no
\* word and a warning was logged
C23_Original ==
    (reader.format # "none" /\ reader.read /\ StructureMissing) =>
        /\ reader.words = <<>>
        /\ "WARNING" \in Range(reader.log)

\* C28: when no line contains "references", or no blank line follows the
\* first that does, parse_description_txt returns every line whose stripped
\* text is not empty and does not start with "#", stripped, header lines
\* included
C28_FallbackStart ==
    (/\ reader.format = "description"
     /\ reader.read
     /\ NoReferences(reader.file) \/ NoBlankFollows(reader.file)) =>
        reader.words =
            SelectSeq([i \in 1..Len(reader.file) |-> Strip(reader.file[i])],
                      LAMBDA l : l # <<>> /\ l[1] # 35)

C28_Witness ==
    /\ reader.format = "description"
    /\ reader.read
    /\ NoBlankFollows(reader.file)
    /\ reader.file[1] = LineTitle
    /\ reader.words = <<LineTitle, LineReferences, LineCitation, cat>>

\* the steps the artist's worker has entered: those that returned, and the
\* one that raised
Started(i) ==
    IF driver.failure[i] \in {"at download", "at build_dataset",
                              "at vocabulary"}
    THEN Append(driver.steps[i],
                CASE driver.failure[i] = "at download" -> "download"
                  [] driver.failure[i] = "at build_dataset" -> "build_dataset"
                  [] OTHER -> "build_vocabulary")
    ELSE driver.steps[i]

IsPrefix(s, t) == Len(s) <= Len(t) /\ s = SubSeq(t, 1, Len(s))

\* C24: with --skip-download no artist fails for want of a token and the
\* download is not entered; without it and without a token every artist
\* that was started has failed on the token and no step was entered for it
C24_TokenOnlyForDownload ==
    driver.mode # "off" =>
        \A i \in Tasks :
            /\ driver.skip_download =>
                /\ driver.failure[i] # "no Genius API token"
                /\ "download" \notin Range(Started(i))
            /\ (~driver.skip_download /\ ~driver.token
                    /\ driver.pc[i] # "queued") =>
                /\ driver.status[i] = "FAILED"
                /\ driver.failure[i] = "no Genius API token"
                /\ Started(i) = <<>>

C24_Witness ==
    /\ driver.skip_download
    /\ ~driver.token
    /\ \E i \in Tasks :
        /\ driver.status[i] = "OK"
        /\ driver.steps[i] = <<"build_dataset", "build_vocabulary">>

\* C25: an artist whose status is OK has had its vocabulary outputs written
\* in this run by its own worker, from the dataset.json of its directory
C25_Original ==
    driver.mode # "off" =>
        \A i \in Tasks :
            driver.status[i] = "OK" =>
                driver.dirs[driver.artist_dir[i]].vocabulary = i

\* C26: the steps an artist's worker has entered are a prefix of download,
\* build dataset, build vocabulary (the download left out under
\* --skip-download), each entered after the one before returned and with
\* its input file in the artist directory; a step that raised is the last
\* one entered and the FAILED status names it
C26_StepOrder ==
    driver.mode # "off" =>
        \A i \in Tasks :
            /\ IsPrefix(Started(i), AllSteps)
            /\ IsPrefix(driver.steps[i], Started(i))
            /\ Len(Started(i)) <= Len(driver.steps[i]) + 1
            /\ Started(i) # driver.steps[i] =>
                /\ driver.pc[i] \in {"done", "collected"}
                /\ driver.status[i] = "FAILED"
            /\ "build_dataset" \in Range(Started(i)) =>
                driver.dirs[driver.artist_dir[i]].raw
            /\ "build_vocabulary" \in Range(Started(i)) =>
                driver.dirs[driver.artist_dir[i]].clean
            /\ driver.status[i] = "FAILED" <=> driver.failure[i] # ""

C26_Witness ==
    \E i \in Tasks :
        /\ driver.pc[i] = "collected"
        /\ driver.failure[i] = "at build_dataset"
        /\ driver.steps[i] = <<"download">>

\* a heading element of the document that has text
HasTextHeading(doc) ==
    \E k \in 1..Len(doc.els) :
        doc.els[k].tag \in HEADING_TAGS /\ doc.els[k].len > 0

\* the step opens a document with a body
OpensDocument ==
    /\ book.pc = "next"
    /\ book'.read = book.read + 1
    /\ ~book'.doc.blank

\* the step visits a heading with text
VisitsTextHeading ==
    /\ book.pc = "elements"
    /\ book.doc.els[book.pos].tag \in HEADING_TAGS
    /\ book.doc.els[book.pos].len > 0

\* the step visits a paragraph or blockquote
VisitsParagraph ==
    /\ book.pc = "elements"
    /\ book.doc.els[book.pos].tag \notin HEADING_TAGS

TextsOf(chapters, num) ==
    IF num \in DOMAIN chapters THEN chapters[num] ELSE <<>>

\* a paragraph or blockquote of at least MIN_TEXT_LEN characters is appended
\* to the chapter of the counter's value at that element, a shorter one
\* changes nothing, and no other step changes the text of a chapter
ParagraphRule ==
    IF VisitsParagraph /\ book.doc.els[book.pos].len >= MIN_TEXT_LEN
    THEN /\ book'.chapter_num = book.chapter_num
         /\ DOMAIN book'.chapters
                = DOMAIN book.chapters \cup {book.chapter_num}
         /\ \A n \in DOMAIN book'.chapters :
                book'.chapters[n] =
                    IF n = book.chapter_num
                    THEN Append(TextsOf(book.chapters, n),
                                book.doc.els[book.pos].len)
                    ELSE book.chapters[n]
    ELSE \A n \in 0..(MaxDocuments * (MaxElements + 1)) :
            TextsOf(book'.chapters, n) = TextsOf(book.chapters, n)

\* the returned list holds the chapters that have text, each with its text,
\* in strictly increasing chapter number
ResultRule ==
    (book.pc # "done" /\ book'.pc = "done") =>
        LET result == book'.result
        IN  /\ \A k \in 1..Len(result) :
                /\ result[k].num \in DOMAIN book.chapters
                /\ result[k].text = book.chapters[result[k].num]
                /\ result[k].text # <<>>
            /\ \A k \in 1..(Len(result) - 1) :
                result[k].num < result[k + 1].num
            /\ \A n \in DOMAIN book.chapters :
                book.chapters[n] # <<>> =>
                    \E k \in 1..Len(result) : result[k].num = n

\* the counter rises by one at a heading with text and at the opening of a
\* document that has none of the headings told by has and more than
\* IMPLICIT_CHAPTER_LEN characters of plain text, and at no other step
CounterRule(has(_)) ==
    /\ book'.chapter_num - book.chapter_num \in {0, 1}
    /\ book'.chapter_num = book.chapter_num + 1 <=>
        \/ VisitsTextHeading
        \/ /\ OpensDocument
           /\ ~has(book'.doc)
           /\ plain_len(book'.doc) > IMPLICIT_CHAPTER_LEN

\* C27 as stated: the chapter counter rises by one at every heading with
\* text and at every document with no heading with text and more than 200
\* characters of plain text; a paragraph of at least 40 characters goes to
\* the chapter current at its position, shorter ones are dropped, and the
\* result lists the chapters with text in strictly increasing number
C27_Original ==
    [][book.pc # "off" =>
        CounterRule(HasTextHeading) /\ ParagraphRule /\ ResultRule]_vars

\* C27 amended: as C27, with the implicit chapter opened only by a document
\* with no h1, h2 or h3 element at all, a heading without text included
C27_Chapters ==
    [][book.pc # "off" =>
        CounterRule(has_headings) /\ ParagraphRule /\ ResultRule]_vars

\* the second document of a book is being read: it has a heading without
\* text, no heading with text and more than 200 characters, the counter
\* stands where the first document left it and that chapter has text
C27_Witness ==
    /\ book.pc = "elements"
    /\ book.read = 2
    /\ book.pos = Len(book.doc.els)
    /\ has_headings(book.doc)
    /\ ~HasTextHeading(book.doc)
    /\ plain_len(book.doc) > IMPLICIT_CHAPTER_LEN
    /\ book.chapter_num = 1
    /\ TextsOf(book.chapters, 1) # <<>>

\* the artists that have a non-empty word list, and what each of them lists
ArtistsWithWords == artists_with_words

WordSet(n) == {Strip(wordsTxt[n].rows[i]) : i \in 1..Len(wordsTxt[n].rows)} \ {<<>>}

\* C30: after build_common_words over artists with non-empty word lists,
\* common_words.txt holds exactly the words that every one of those artists
\* lists, and each threshold list is contained in the list of the next lower
\* threshold: common_words.txt in common_words_90.txt in common_words_75.txt
\* in common_words_50.txt
C30_CommonNested ==
    CommonWordsOutputs =>
        /\ Range(commonWordsTxt.rows) =
                {w \in UNION {WordSet(n) : n \in ArtistsWithWords} :
                    \A n \in ArtistsWithWords : w \in WordSet(n)}
        /\ Range(commonWordsTxt.rows) \subseteq Range(thresholdTxt[90].rows)
        /\ Range(thresholdTxt[90].rows) \subseteq Range(thresholdTxt[75].rows)
        /\ Range(thresholdTxt[75].rows) \subseteq Range(thresholdTxt[50].rows)

\* three artists, a word that all of them list and a word listed by some
\* only, which the 50 percent list holds and common_words.txt does not
C30_Witness ==
    /\ CommonWordsOutputs
    /\ Cardinality(ArtistsWithWords) = 3
    /\ commonWordsTxt.rows # <<>>
    /\ Range(commonWordsTxt.rows) # Range(thresholdTxt[50].rows)

\* the step leaves the file with the stage that wrote it before, if any
KeepsProducer(before, after) == before.by # "" => after.by = before.by

\* C29: no run of build_dataset, build_vocabulary, build_common_words or
\* build_unique writes a file of the lyrics output directory that another
\* stage wrote before: common_words.csv, common_words.txt, the threshold
\* lists and each artist's dataset.json, dataset.csv, words.txt, unique.csv
C29_Original ==
    [][output.mode = "stages" =>
        /\ KeepsProducer(output.common_words_csv, output'.common_words_csv)
        /\ KeepsProducer(output.common_words_txt, output'.common_words_txt)
        /\ \A p \in ThresholdFiles :
            KeepsProducer(output.threshold_txt[p], output'.threshold_txt[p])
        /\ \A a \in OutputArtists :
            /\ KeepsProducer(output.dataset_json[a], output'.dataset_json[a])
            /\ KeepsProducer(output.dataset_csv[a], output'.dataset_csv[a])
            /\ KeepsProducer(output.words_txt[a], output'.words_txt[a])
            /\ KeepsProducer(output.unique_csv[a], output'.unique_csv[a])]_vars

====
